---- MODULE Spec2Model ----
(***************************************************************************)
(* A model of the WHOOP command-line client: the credential store          *)
(* (src/src/secret_store.py), the authenticated request executor, the      *)
(* single-page data fetchers, the paginated aggregator, the data command   *)
(* the daily compliance scan and the authorization flow                    *)
(* (src/scripts/whoop_auth.py).                                            *)
(*                                                                         *)
(* One behaviour is one invocation of the program.  The state between two  *)
(* steps is the state of the process between two blocks of straight-line   *)
(* code; every HTTP exchange (request sent, response received) is one      *)
(* step whose response is chosen by the server, i.e. nondeterministically. *)
(*                                                                         *)
(* Spec is the program run with one command.  StoreSpec is the credential  *)
(* store called directly, one operation after the other.  RaceSpec is two  *)
(* invocations saving tokens to the same file.  CallSpec is one call of a  *)
(* date or filter function.  OAuthSpec is one authorization flow.          *)
(***************************************************************************)
EXTENDS Integers, Sequences, FiniteSets, TLC

VARIABLES
    secrets_file,   \* contents of secrets.json (or absent)
    cmd,            \* the invocation: which function is run, with which arguments
    pc,             \* position of the process in the command being run
    ar,             \* the activation of authenticated_request (one at a time)
    issued,         \* number of token pairs the token endpoint has issued so far
    agg,            \* locals of _fetch_all_pages
    pages,          \* history: the page payloads _fetch_all_pages received, in order
    calls,          \* history: the page fetches of _fetch_all_pages, in order
    rg,             \* locals of run_get_data (the loaded token pair)
    scan,           \* locals of run_daily_compliance_check
    refreshed,      \* history: the last pair a successful refresh produced
    ret,            \* value returned by the called function (fetcher or aggregator)
    out,            \* what the command printed on stdout
    error,          \* the error the command ended with, if any
    store,          \* the callers of the credential store, when it is used on its own
    oauth           \* locals of run_oauth_flow

vars == <<secrets_file, cmd, pc, ar, issued, agg, pages, calls, rg, scan,
          refreshed, ret, out, error, store, oauth>>

(***************************************************************************)
(* Bounds of the model.                                                    *)
(***************************************************************************)
MaxPages == 3      \* pages one aggregation may fetch before the model stops it
MaxIssued == 2     \* token pairs the token endpoint issues in one behaviour

(***************************************************************************)
(* Python / JSON values.  Every value carries its type in field t, so that *)
(* isinstance, truthiness and str() can be modelled as the code uses them. *)
(***************************************************************************)
None == [t |-> "null"]
S(s) == [t |-> "str", s |-> s]
N(n) == [t |-> "int", n |-> n]
L(q) == [t |-> "list", l |-> q]
D(f) == [t |-> "dict", d |-> f]

IsStr(x) == x.t = "str"
IsList(x) == x.t = "list"
IsDict(x) == x.t = "dict"

\* bool(x)
Truthy(x) ==
    CASE x.t = "null" -> FALSE
      [] x.t = "str"  -> x.s # ""
      [] x.t = "int"  -> x.n # 0
      [] x.t = "list" -> x.l # <<>>
      [] x.t = "dict" -> DOMAIN x.d # {}

\* a or b
Or(a, b) == IF Truthy(a) THEN a ELSE b

\* key in d  /  d.get(key)  /  d.get(key, default), for a dict value d
Has(x, key) == key \in DOMAIN x.d
GetOr(x, key, default) == IF Has(x, key) THEN x.d[key] ELSE default
Get(x, key) == GetOr(x, key, None)

\* str(x) for the values a cursor is coerced from
Str(x) ==
    CASE x.t = "str" -> x.s
      [] x.t = "int" -> ToString(x.n)
      [] OTHER       -> "?"

\* the character at position i of string s
Char(s, i) == SubSeq(s, i, i)

IsSpace(c) == c \in {" ", "\t", "\n", "\r"}

\* s.strip()
RECURSIVE LStrip(_)
LStrip(s) ==
    IF Len(s) > 0 /\ IsSpace(Char(s, 1)) THEN LStrip(SubSeq(s, 2, Len(s))) ELSE s
RECURSIVE RStrip(_)
RStrip(s) ==
    IF Len(s) > 0 /\ IsSpace(Char(s, Len(s))) THEN RStrip(SubSeq(s, 1, Len(s) - 1)) ELSE s
Strip(s) == RStrip(LStrip(s))

\* the characters the model's strings are made of, in code-point order
Alphabet == "\t\n\r -.0123456789:TZabcdefghijklmnopqrstuvwxyz"
Ord(c) == CHOOSE i \in 1..Len(Alphabet) : Char(Alphabet, i) = c

\* a < b on Python strings (code-point lexicographic order)
RECURSIVE StrLess(_, _)
StrLess(a, b) ==
    IF Len(b) = 0 THEN FALSE
    ELSE IF Len(a) = 0 THEN TRUE
    ELSE IF Char(a, 1) = Char(b, 1)
         THEN StrLess(SubSeq(a, 2, Len(a)), SubSeq(b, 2, Len(b)))
         ELSE Ord(Char(a, 1)) < Ord(Char(b, 1))

(***************************************************************************)
(* The credential store, src/src/secret_store.py.  The file holds one JSON *)
(* object: a function from key strings to values.                          *)
(***************************************************************************)
NUM_BANDS == 10

Absent == [exists |-> FALSE]
File(doc) == [exists |-> TRUE, doc |-> doc]

EmptyBand == [access_token |-> S(""), refresh_token |-> S("")]
BandKeys == {ToString(b) : b \in 1..NUM_BANDS}

\* the document ensure_secrets_file writes when the file does not exist
InitialDoc ==
    [k \in {"client_id", "client_secret"} \cup BandKeys |->
        IF k \in BandKeys THEN EmptyBand ELSE S("")]

ensure_secrets_file(file) == IF file.exists THEN file ELSE File(InitialDoc)

\* load_secrets: the file after the call; the document read is its .doc
load_secrets(file) == ensure_secrets_file(file)

save_secrets(data) == File(data)

\* get_client_credentials: [file after the call, client_id, client_secret]
get_client_credentials(file) ==
    LET f == load_secrets(file)
        secrets == f.doc
    IN  [file |-> f,
         client_id |-> Or(IF "client_id" \in DOMAIN secrets
                          THEN secrets["client_id"] ELSE None, S("")),
         client_secret |-> Or(IF "client_secret" \in DOMAIN secrets
                              THEN secrets["client_secret"] ELSE None, S(""))]

\* a range check that lets band 0 through
ValidBandFromZero(band_id) == 0 <= band_id /\ band_id <= NUM_BANDS

ValidBand(band_id) == 1 <= band_id /\ band_id <= NUM_BANDS

\* d[key] = value on a Python dict modelled as a function
Put(f, key, value) ==
    [k \in DOMAIN f \cup {key} |-> IF k = key THEN value ELSE f[k]]

\* a read that inserts nothing for a band the document does not have
get_band_tokens_no_insert(file, band_id) ==
    IF ~ValidBand(band_id)
    THEN [raised |-> TRUE, file |-> file, access_token |-> None, refresh_token |-> None]
    ELSE LET f == load_secrets(file)
             band_key == ToString(band_id)
             band_data == IF band_key \in DOMAIN f.doc THEN f.doc[band_key] ELSE <<>>
         IN  [raised |-> FALSE,
              file |-> f,
              access_token |-> Or(IF "access_token" \in DOMAIN band_data
                                  THEN band_data["access_token"] ELSE None, S("")),
              refresh_token |-> Or(IF "refresh_token" \in DOMAIN band_data
                                   THEN band_data["refresh_token"] ELSE None, S(""))]

\* get_band_tokens: [raised, file after the call, access_token, refresh_token]
get_band_tokens(file, band_id) ==
    IF ~ValidBand(band_id)
    THEN [raised |-> TRUE, file |-> file, access_token |-> None, refresh_token |-> None]
    ELSE LET f == load_secrets(file)
             band_key == ToString(band_id)
             healed == IF band_key \notin DOMAIN f.doc
                       THEN save_secrets(Put(f.doc, band_key, EmptyBand))
                       ELSE f
             band_data == healed.doc[band_key]
         IN  [raised |-> FALSE,
              file |-> healed,
              access_token |-> Or(IF "access_token" \in DOMAIN band_data
                                  THEN band_data["access_token"] ELSE None, S("")),
              refresh_token |-> Or(IF "refresh_token" \in DOMAIN band_data
                                   THEN band_data["refresh_token"] ELSE None, S(""))]

\* a save that leaves the refresh token of the band as it was
save_band_tokens_access_only(file, band_id, access_token, refresh_token) ==
    IF ~ValidBand(band_id)
    THEN [raised |-> TRUE, file |-> file]
    ELSE LET f == load_secrets(file)
             band_key == ToString(band_id)
             old == IF band_key \in DOMAIN f.doc THEN f.doc[band_key] ELSE <<>>
             new == Put(old, "access_token", access_token)
         IN  [raised |-> FALSE, file |-> save_secrets(Put(f.doc, band_key, new))]

\* a save that writes a document holding the credentials and this band only
save_band_tokens_alone(file, band_id, access_token, refresh_token) ==
    IF ~ValidBand(band_id)
    THEN [raised |-> TRUE, file |-> file]
    ELSE LET f == load_secrets(file)
             band_key == ToString(band_id)
             new == [access_token |-> access_token, refresh_token |-> refresh_token]
             kept == [k \in DOMAIN f.doc \ BandKeys |-> f.doc[k]]
         IN  [raised |-> FALSE, file |-> save_secrets(Put(kept, band_key, new))]

\* save_band_tokens: [raised, file after the call]
save_band_tokens(file, band_id, access_token, refresh_token) ==
    IF ~ValidBand(band_id)
    THEN [raised |-> TRUE, file |-> file]
    ELSE LET f == load_secrets(file)
             band_key == ToString(band_id)
             old == IF band_key \in DOMAIN f.doc THEN f.doc[band_key] ELSE <<>>
             new == Put(Put(old, "access_token", access_token),
                        "refresh_token", refresh_token)
         IN  [raised |-> FALSE, file |-> save_secrets(Put(f.doc, band_key, new))]

\* the store is used by a command, not on its own
NoStore == [kind |-> "none"]

(***************************************************************************)
(* The server side of an HTTP exchange: what the data endpoints and the    *)
(* token endpoint may answer.                                              *)
(***************************************************************************)
\* two records as the API returns them, one non-mapping entry
Rec1 ==
    D([id |-> N(1), start |-> S("2024-01-14T22:00:00.000Z"), end |-> None])
Rec2 ==
    D([id |-> N(2), start |-> S("2024-01-15T08:00:00.000Z"),
       end |-> S("2024-01-15T09:00:00.000Z")])

\* a response object: its records value, its next_token value, other keys
Page(records, next_token, meta) ==
    D([k \in {"records", "next_token"} \cup DOMAIN meta |->
        IF k = "records" THEN records
        ELSE IF k = "next_token" THEN next_token
        ELSE meta[k]])
\* the same without a next_token key
PageNoCursor(records, meta) ==
    D([k \in {"records"} \cup DOMAIN meta |->
        IF k = "records" THEN records ELSE meta[k]])

NoMeta == <<>>
Meta1 == [total |-> N(1)]
Meta2 == [total |-> N(2), unit |-> S("ms")]

\* the payloads a data endpoint may answer a 200 with: four after which the
\* aggregator goes on to the next page, nine after which it stops
PagePayloads ==
    {Page(L(<<Rec2, Rec1>>), S("a"), Meta1),
     Page(L(<<Rec1>>), S("b"), NoMeta),
     Page(L(<<>>), N(7), Meta2),
     Page(None, S("a"), NoMeta),
     Page(L(<<Rec2, Rec1>>), None, Meta2),
     Page(L(<<Rec2>>), S(""), NoMeta),
     Page(L(<<Rec1>>), S(" "), NoMeta),
     PageNoCursor(L(<<Rec2>>), Meta1),
     Page(L(<<>>), None, NoMeta),
     Page(None, None, Meta1),
     D([error |-> S("x")]),
     L(<<Rec1, N(5)>>),
     S("x")}

\* a body response.json() cannot decode
NotJson == [t |-> "notjson"]

Statuses == {200, 304, 401, 500}

Responses ==
    {[status |-> 200, body |-> p] : p \in PagePayloads}
    \cup {[status |-> s, body |-> NotJson] : s \in Statuses \ {200}}

\* requests.Response.raise_for_status raises HTTPError for 4xx and 5xx
RaisesForStatus(status) == 400 <= status /\ status < 600

\* the n-th token pair the token endpoint issues
NewAccess(n) == S("A" \o ToString(n))
NewRefresh(n) == S("R" \o ToString(n))

\* what the token endpoint may answer, having issued n pairs: fresh always
\* stands for tokens never issued before.  Besides 200 and 400 it may answer
\* with a status raise_for_status lets through: 304 without a body, 300 with one
TokenResponses(n) ==
    {[status |-> 400, body |-> <<>>, fresh |-> 0],
     [status |-> 304, body |-> NotJson, fresh |-> 0],
     [status |-> 200, body |-> [access_token |-> S("")], fresh |-> 0],
     [status |-> 200, body |-> <<>>, fresh |-> 0]}
    \cup (IF n < MaxIssued
          THEN {[status |-> 200, fresh |-> 1,
                 body |-> [access_token |-> NewAccess(n + 1),
                           refresh_token |-> NewRefresh(n + 1)]],
                [status |-> 200, fresh |-> 1,
                 body |-> [access_token |-> NewAccess(n + 1)]],
                [status |-> 200, fresh |-> 1,
                 body |-> [access_token |-> NewAccess(n + 1),
                           refresh_token |-> None]],
                [status |-> 200, fresh |-> 1,
                 body |-> [refresh_token |-> NewRefresh(n + 1)]],
                [status |-> 300, fresh |-> 1,
                 body |-> [access_token |-> NewAccess(n + 1),
                           refresh_token |-> NewRefresh(n + 1)]]}
          ELSE {})

(***************************************************************************)
(* authenticated_request, src/scripts/whoop_auth.py lines 133-236.         *)
(***************************************************************************)
NoError == [exc |-> "", what |-> "", status |-> 0]
SystemExit(what) == [exc |-> "SystemExit", what |-> what, status |-> 0]
HTTPError(status) == [exc |-> "HTTPError", what |-> "HttpError", status |-> status]
OtherError(exc) == [exc |-> exc, what |-> exc, status |-> 0]

NoResponse == [status |-> 0, body |-> NotJson]
NoTokenResponse == [status |-> 0, body |-> <<>>, fresh |-> 0]

\* sent and refresh_response are the record of the exchanges of this
\* activation: the data requests sent, and the token endpoint's answer
Idle ==
    [pc |-> "idle", url |-> "", params |-> <<>>,
     access_token |-> None, refresh_token |-> None,
     headers |-> None, sent |-> <<>>, n_refresh |-> 0,
     refresh_response |-> NoTokenResponse,
     new_access_token |-> None, new_refresh_token |-> None,
     response |-> NoResponse, result |-> <<None, None>>, error |-> NoError]

\* entry of authenticated_request (lines 169-171): the Authorization header
\* is set from access_token and the first request is about to be sent
authenticated_request(url, access_token, refresh_token, params) ==
    [Idle EXCEPT !.pc = "send", !.url = url, !.params = params,
                 !.access_token = access_token, !.refresh_token = refresh_token,
                 !.headers = access_token]

\* requests.request(...) of lines 174-182 and 223-231: the request as sent
Request(a) == [authorization |-> a.headers, url |-> a.url, params |-> a.params]

\* a 401 that always leads to the refresh
FirstOutcomeAlwaysRefresh(a, resp) ==
    IF resp.status = 401
    THEN [a EXCEPT !.pc = "refresh"]
    ELSE IF RaisesForStatus(resp.status)
         THEN [a EXCEPT !.pc = "raised", !.error = HTTPError(resp.status)]
         ELSE [a EXCEPT !.pc = "returned",
                        !.result = <<a.access_token, a.refresh_token>>]

\* a variant of line 236 that returns the pair of the refresh, which is
\* unset when there was none
FirstOutcomeReturnsNewPair(a, resp) ==
    IF resp.status = 401
    THEN IF ~Truthy(a.refresh_token)
         THEN [a EXCEPT !.pc = "raised", !.error = SystemExit("MissingRefreshToken")]
         ELSE [a EXCEPT !.pc = "refresh"]
    ELSE IF RaisesForStatus(resp.status)
         THEN [a EXCEPT !.pc = "raised", !.error = HTTPError(resp.status)]
         ELSE [a EXCEPT !.pc = "returned",
                        !.result = <<a.new_access_token, a.new_refresh_token>>]

\* lines 184-192 and 234-236: what follows the response to the first request
FirstOutcome(a, resp) ==
    IF resp.status = 401
    THEN IF ~Truthy(a.refresh_token)
         THEN [a EXCEPT !.pc = "raised", !.error = SystemExit("MissingRefreshToken")]
         ELSE [a EXCEPT !.pc = "refresh"]
    ELSE IF RaisesForStatus(resp.status)
         THEN [a EXCEPT !.pc = "raised", !.error = HTTPError(resp.status)]
         ELSE [a EXCEPT !.pc = "returned",
                        !.result = <<a.access_token, a.refresh_token>>]

\* a retry that leaves the header as the first request set it
RetryHeaderOld(new_access_token, old_access_token) == old_access_token

\* the Authorization header after a refresh (line 222)
RetryHeader(new_access_token, old_access_token) == new_access_token

\* a refresh that calls authenticated_request again instead of re-issuing
\* the request once
RefreshOutcomeRecursive(a, r) ==
    IF RaisesForStatus(r.status) \/ "access_token" \notin DOMAIN r.body
    THEN [a EXCEPT !.pc = "raised", !.error = SystemExit("RefreshFailed")]
    ELSE [a EXCEPT !.pc = "send", !.headers = r.body["access_token"]]

\* a refresh that keeps the refresh token it was called with
RefreshOutcomeKeepOld(a, r) ==
    LET tokens == r.body
        new_access_token ==
            IF "access_token" \in DOMAIN tokens THEN tokens["access_token"] ELSE S("")
    IN  IF RaisesForStatus(r.status)
        THEN [a EXCEPT !.pc = "raised", !.error = SystemExit("RefreshFailed")]
        ELSE IF tokens = NotJson
        THEN [a EXCEPT !.pc = "raised", !.error = OtherError("JSONDecodeError")]
        ELSE IF ~Truthy(new_access_token)
        THEN [a EXCEPT !.pc = "raised", !.error = SystemExit("RefreshFailed")]
        ELSE [a EXCEPT !.pc = "retry",
                       !.new_access_token = new_access_token,
                       !.new_refresh_token = a.refresh_token,
                       !.headers = RetryHeader(new_access_token, a.access_token)]

\* lines 194-222: what follows the token endpoint's response
RefreshOutcome(a, r) ==
    LET tokens == r.body
        new_access_token ==
            IF "access_token" \in DOMAIN tokens THEN tokens["access_token"] ELSE S("")
        new_refresh_token ==
            IF "refresh_token" \in DOMAIN tokens
            THEN tokens["refresh_token"] ELSE a.refresh_token
    IN  IF RaisesForStatus(r.status)
        THEN [a EXCEPT !.pc = "raised", !.error = SystemExit("RefreshFailed")]
        \* line 130: response.json() on a body that is no JSON
        ELSE IF tokens = NotJson
        THEN [a EXCEPT !.pc = "raised", !.error = OtherError("JSONDecodeError")]
        ELSE IF ~Truthy(new_access_token)
        THEN [a EXCEPT !.pc = "raised", !.error = SystemExit("RefreshFailed")]
        ELSE [a EXCEPT !.pc = "retry",
                       !.new_access_token = new_access_token,
                       !.new_refresh_token = new_refresh_token,
                       !.headers = RetryHeader(new_access_token, a.access_token)]

\* a retry whose status is not checked
RetryOutcomeUnchecked(a, resp) ==
    [a EXCEPT !.pc = "returned",
              !.result = <<a.new_access_token, a.new_refresh_token>>]

\* lines 232-233: what follows the response to the re-issued request
RetryOutcome(a, resp) ==
    IF RaisesForStatus(resp.status)
    THEN [a EXCEPT !.pc = "raised", !.error = HTTPError(resp.status)]
    ELSE [a EXCEPT !.pc = "returned",
                   !.result = <<a.new_access_token, a.new_refresh_token>>]

\* lines 174-192 and 234-236: the first request and what follows its response
ArSend ==
    /\ ar.pc = "send"
    /\ \E resp \in Responses :
         ar' = FirstOutcome([ar EXCEPT !.sent = Append(@, Request(ar)),
                                       !.response = resp], resp)
    /\ UNCHANGED <<secrets_file, cmd, pc, issued, agg, pages, calls, rg, scan,
                   refreshed, ret, out, error>>
    /\ UNCHANGED <<store, oauth>>

\* lines 194-222: refresh_access_token (lines 114-130) and what follows it
ArRefresh ==
    /\ ar.pc = "refresh"
    /\ \E r \in TokenResponses(issued) :
         /\ issued' = issued + r.fresh
         /\ ar' = RefreshOutcome([ar EXCEPT !.n_refresh = @ + 1,
                                            !.refresh_response = r], r)
         /\ refreshed' = IF ar'.pc = "retry"
                         THEN <<ar'.new_access_token, ar'.new_refresh_token>>
                         ELSE refreshed
    /\ UNCHANGED <<secrets_file, cmd, pc, agg, pages, calls, rg, scan, ret, out, error>>
    /\ UNCHANGED <<store, oauth>>

\* lines 223-233: the request re-issued with the new token
ArRetry ==
    /\ ar.pc = "retry"
    /\ \E resp \in Responses :
         ar' = RetryOutcome([ar EXCEPT !.sent = Append(@, Request(ar)),
                                       !.response = resp], resp)
    /\ UNCHANGED <<secrets_file, cmd, pc, issued, agg, pages, calls, rg, scan,
                   refreshed, ret, out, error>>
    /\ UNCHANGED <<store, oauth>>

(***************************************************************************)
(* The data fetchers get_sleep_data, get_cycle_data, get_recovery_data and *)
(* get_workout_data (lines 239-408): the same code for four URLs.          *)
(***************************************************************************)
\* lines 259-277: the query parameters, then the call of authenticated_request
DataFetcher(endpoint, access_token, refresh_token, limit, next_token, start, end) ==
    LET p0 == [limit |-> N(limit)]
        p1 == IF Truthy(next_token) THEN Put(p0, "nextToken", next_token) ELSE p0
        p2 == IF Truthy(start) THEN Put(p1, "start", start) ELSE p1
        p3 == IF Truthy(end) THEN Put(p2, "end", end) ELSE p2
    IN  authenticated_request(endpoint, access_token, refresh_token, p3)

\* line 279 and its peers: response.json() fails on a body that is no JSON
FetcherReturned == ar.pc = "returned" /\ ar.response.body # NotJson
FetcherRaised == ar.pc = "raised" \/ (ar.pc = "returned" /\ ar.response.body = NotJson)
FetcherError == IF ar.pc = "raised" THEN ar.error ELSE OtherError("JSONDecodeError")

(***************************************************************************)
(* Dates and the client-side record filters, lines 480-592.                *)
(***************************************************************************)
Digits == "0123456789"
IsDigit(c) == \E i \in 1..10 : Char(Digits, i) = c
DigitVal(c) == (CHOOSE i \in 1..10 : Char(Digits, i) = c) - 1

AllDigits(s) == \A i \in 1..Len(s) : IsDigit(Char(s, i))

RECURSIVE ToInt(_)
ToInt(s) ==
    IF Len(s) = 0 THEN 0
    ELSE 10 * ToInt(SubSeq(s, 1, Len(s) - 1)) + DigitVal(Char(s, Len(s)))

IsLeap(y) == (y % 4 = 0 /\ y % 100 # 0) \/ y % 400 = 0
DaysIn(y, m) ==
    IF m = 2 THEN (IF IsLeap(y) THEN 29 ELSE 28)
    ELSE IF m \in {4, 6, 9, 11} THEN 30 ELSE 31

\* validate_date_format: datetime.strptime(date_str, "%Y-%m-%d") succeeds.
\* %Y is four digits (a year from 1 on); %m is one or two digits in range;
\* %d is one or two digits, or a space and a digit; the day must exist in
\* the month; nothing may follow the day.
validate_date_format(date_str) ==
    /\ Len(date_str) >= 8
    /\ AllDigits(SubSeq(date_str, 1, 4))
    /\ ToInt(SubSeq(date_str, 1, 4)) >= 1
    /\ Char(date_str, 5) = "-"
    /\ \E p \in {7, 8} :
         /\ p < Len(date_str)
         /\ Char(date_str, p) = "-"
         /\ LET m == SubSeq(date_str, 6, p - 1)
                d0 == SubSeq(date_str, p + 1, Len(date_str))
                d == IF Len(d0) = 2 /\ Char(d0, 1) = " " THEN Char(d0, 2) ELSE d0
            IN  /\ AllDigits(m)
                /\ Len(d) \in {1, 2}
                /\ AllDigits(d)
                /\ ToInt(m) \in 1..12
                /\ ToInt(d) >= 1
                /\ ToInt(d) <= DaysIn(ToInt(SubSeq(date_str, 1, 4)), ToInt(m))

\* "T" in date_str, line 513
ContainsT(s) == \E i \in 1..Len(s) : Char(s, i) = "T"

\* a variant of lines 522-526 that appends the start of the day always
format_date_for_api_start_only(date_str, is_end) ==
    IF ~Truthy(date_str) THEN [raised |-> FALSE, value |-> None]
    ELSE IF ContainsT(date_str.s) THEN [raised |-> FALSE, value |-> date_str]
    ELSE IF ~validate_date_format(date_str.s)
    THEN [raised |-> TRUE, value |-> None]
    ELSE [raised |-> FALSE, value |-> S(date_str.s \o "T00:00:00.000Z")]

\* format_date_for_api, lines 496-526: [raised, value]; raised stands for
\* the SystemExit of line 518
format_date_for_api(date_str, is_end) ==
    IF ~Truthy(date_str) THEN [raised |-> FALSE, value |-> None]
    ELSE IF ContainsT(date_str.s) THEN [raised |-> FALSE, value |-> date_str]
    ELSE IF ~validate_date_format(date_str.s)
    THEN [raised |-> TRUE, value |-> None]
    ELSE IF is_end
    THEN [raised |-> FALSE, value |-> S(date_str.s \o "T23:59:59.999Z")]
    ELSE [raised |-> FALSE, value |-> S(date_str.s \o "T00:00:00.000Z")]

TypeError == OtherError("TypeError")

\* the characters of a string, as a list of one-character strings
Chars(s) == [i \in 1..Len(s) |-> S(Char(s, i))]

\* the test of line 552: record_start and record_start >= start
KeepByStart(record, start) ==
    IF IsDict(record)
    THEN LET record_start == Get(record, "start")
         IN  Truthy(record_start) /\ ~StrLess(record_start.s, start.s)
    ELSE TRUE

\* filter_records_by_start_date, lines 529-558:
\* [raised, value]; iterating a value that is no container raises TypeError
filter_records_by_start_date(records, start) ==
    IF ~Truthy(start) \/ ~Truthy(records)
    THEN [raised |-> FALSE, value |-> records]
    ELSE IF IsList(records)
    THEN [raised |-> FALSE,
          value |-> L(SelectSeq(records.l, LAMBDA r : KeepByStart(r, start)))]
    ELSE IF IsStr(records)
    THEN [raised |-> FALSE, value |-> L(Chars(records.s))]
    ELSE [raised |-> TRUE, value |-> records]

\* the test of line 585, negated: the record is kept
KeepOngoing(record, start) ==
    IF IsDict(record)
    THEN LET record_start == Get(record, "start")
             record_end == Get(record, "end")
         IN  ~(/\ Truthy(record_start)
               /\ StrLess(record_start.s, start.s)
               /\ record_end = None)
    ELSE TRUE

\* a variant of line 585 that skips every record that started before the date
filter_ongoing_any_end(records, start) ==
    SelectSeq(records,
              LAMBDA r : ~(/\ IsDict(r)
                           /\ Truthy(Get(r, "start"))
                           /\ StrLess(Get(r, "start").s, start.s)))

\* filter_ongoing_records_before_date, lines 561-592, on a list
filter_ongoing_records_before_date(records, start) ==
    IF records = <<>> THEN records
    ELSE SelectSeq(records, LAMBDA r : KeepOngoing(r, start))

(***************************************************************************)
(* _fetch_all_pages, lines 680-802.                                        *)
(***************************************************************************)
NoMetadata == <<>>

\* lines 700-707
FetchAllPagesInit(access_token, refresh_token) ==
    [all_records |-> <<>>, current_token |-> access_token,
     current_refresh |-> refresh_token, next_token |-> None,
     previous_next_token |-> None, page_count |-> 0,
     response_metadata |-> NoMetadata]

\* lines 736-739: the keys of the first page kept as metadata
PageMetadata(page_count, page_data, response_metadata) ==
    IF page_count = 1 /\ IsDict(page_data)
    THEN [k \in DOMAIN page_data.d \ {"records", "next_token"} |-> page_data.d[k]]
    ELSE response_metadata

\* the page's records put in front of the earlier pages'
ExtendInFront(all_records, page_records) == page_records \o all_records

\* all_records.extend(page_records), lines 746 and 749
Extend(all_records, page_records) == all_records \o page_records

\* every shape but a list payload handled as lines 743-752 do; a list payload
\* added as one record
AddPageRecordsListWhole(all_records, page_data) ==
    IF IsDict(page_data) /\ Has(page_data, "records")
    THEN Extend(all_records,
                IF IsList(page_data.d["records"]) THEN page_data.d["records"].l
                ELSE <<>>)
    ELSE Append(all_records, page_data)

\* lines 743-752: all_records after the page's records are added
AddPageRecords(all_records, page_data) ==
    IF IsDict(page_data) /\ Has(page_data, "records")
    THEN Extend(all_records,
                IF IsList(page_data.d["records"]) THEN page_data.d["records"].l
                ELSE <<>>)
    ELSE IF IsList(page_data)
    THEN Extend(all_records, page_data.l)
    ELSE Append(all_records, page_data)

\* a variant of lines 760-765 that hands the cursor on as the page holds it
ExtractNextTokenAsIs(page_data) ==
    IF IsDict(page_data) THEN Get(page_data, "next_token") ELSE None

\* lines 760-765: the cursor taken from the page
ExtractNextToken(page_data) ==
    IF IsDict(page_data)
    THEN LET next_token == Get(page_data, "next_token")
         IN  IF Truthy(next_token) /\ ~IsStr(next_token)
             THEN S(Str(next_token))
             ELSE next_token
    ELSE None

\* the test without its whitespace clause
StopPagingFalsyOnly(next_token) == ~Truthy(next_token)

\* line 774: the test that ends the loop
StopPaging(next_token) ==
    ~Truthy(next_token) \/ (IsStr(next_token) /\ Strip(next_token.s) = "")

\* lines 796-800
CombinedData(response_metadata, all_records) ==
    D(Put(Put(response_metadata, "records", L(all_records)), "next_token", None))

(***************************************************************************)
(* run_get_data, lines 805-888.                                            *)
(***************************************************************************)
MissingCredentials == SystemExit("MissingCredentials")

\* line 875: the returned pair differs from the loaded pair
TokensChanged(new_access_token, new_refresh_token, access_token, refresh_token) ==
    new_access_token # access_token \/ new_refresh_token # refresh_token

\* lines 874-888: save the tokens when they changed, filter, print
RunGetDataTail(data, new_access_token, new_refresh_token) ==
    LET saved ==
            IF TokensChanged(new_access_token, new_refresh_token,
                             rg.access_token, rg.refresh_token)
            THEN save_band_tokens(secrets_file, cmd.band_id,
                                  new_access_token, new_refresh_token).file
            ELSE secrets_file
        filters == Truthy(cmd.start) /\ IsDict(data) /\ Has(data, "records")
        f == filter_records_by_start_date(data.d["records"], cmd.start)
        \* line 883: len() of the filtered value
        fails == filters /\ (f.raised \/ f.value.t \notin {"list", "str", "dict"})
    IN  /\ secrets_file' = saved
        /\ IF fails
           THEN /\ pc' = "exit"
                /\ error' = TypeError
                /\ UNCHANGED out
           ELSE /\ pc' = "done"
                /\ out' = IF filters THEN D(Put(data.d, "records", f.value)) ELSE data
                /\ UNCHANGED error

\* a variant of lines 823-841 without the test of the refresh token
CredentialsMissingThreeTests(client_id, client_secret, access_token, refresh_token) ==
    \/ ~Truthy(client_id) \/ ~Truthy(client_secret)
    \/ ~Truthy(access_token)

\* lines 823-841: the three tests that end the command with SystemExit
CredentialsMissing(client_id, client_secret, access_token, refresh_token) ==
    \/ ~Truthy(client_id) \/ ~Truthy(client_secret)
    \/ ~Truthy(access_token)
    \/ ~Truthy(refresh_token)

\* lines 823-872, up to the first request
RunGetDataStart ==
    /\ pc = "start"
    /\ cmd.kind = "get_data"
    /\ LET c == get_client_credentials(secrets_file)
           b == get_band_tokens(c.file, cmd.band_id)
       IN  /\ secrets_file' = b.file
           /\ IF CredentialsMissing(c.client_id, c.client_secret,
                                    b.access_token, b.refresh_token)
              THEN /\ pc' = "exit"
                   /\ error' = MissingCredentials
                   /\ UNCHANGED <<ar, agg, rg>>
              ELSE /\ rg' = [access_token |-> b.access_token,
                             refresh_token |-> b.refresh_token]
                   /\ UNCHANGED error
                   /\ IF cmd.fetch_all
                      THEN /\ agg' = FetchAllPagesInit(b.access_token, b.refresh_token)
                           /\ pc' = "agg_loop"
                           /\ UNCHANGED ar
                      ELSE /\ ar' = DataFetcher(cmd.endpoint, b.access_token,
                                                b.refresh_token, cmd.limit, None,
                                                cmd.start, cmd.end)
                           /\ pc' = "single"
                           /\ UNCHANGED agg
    /\ UNCHANGED <<cmd, issued, pages, calls, scan, refreshed, ret, out>>
    /\ UNCHANGED <<store, oauth>>

\* lines 863-888: the single page came back
RunGetDataPage ==
    /\ pc = "single"
    /\ FetcherReturned
    /\ ret' = [data |-> ar.response.body, access_token |-> ar.result[1],
               refresh_token |-> ar.result[2]]
    /\ RunGetDataTail(ar.response.body, ar.result[1], ar.result[2])
    /\ ar' = Idle
    /\ UNCHANGED <<cmd, issued, agg, pages, calls, rg, scan, refreshed>>
    /\ UNCHANGED <<store, oauth>>

\* every page fetched with the pair the command loaded from the store
PagePairLoaded(a, loaded) == <<loaded.access_token, loaded.refresh_token>>

\* lines 723-724: the token pair a page is fetched with
PagePair(a, loaded) == <<a.current_token, a.current_refresh>>

\* lines 709-729: the top of the loop, up to the page's request
FetchAllPagesLoop ==
    /\ pc = "agg_loop"
    /\ agg.page_count < MaxPages
    /\ agg' = [agg EXCEPT !.page_count = @ + 1]
    /\ ar' = DataFetcher(cmd.endpoint, PagePair(agg, rg)[1], PagePair(agg, rg)[2],
                         cmd.limit, agg.next_token, cmd.start, cmd.end)
    /\ calls' = Append(calls, [access_token |-> ar'.access_token,
                               refresh_token |-> ar'.refresh_token,
                               params |-> ar'.params])
    /\ pc' = "agg_wait"
    /\ UNCHANGED <<secrets_file, cmd, issued, pages, rg, scan, refreshed, ret,
                   out, error>>
    /\ UNCHANGED <<store, oauth>>

\* lines 719-802: the page came back; on the last page the aggregate is
\* returned to run_get_data, which goes on with lines 874-888
FetchAllPagesPage ==
    /\ pc = "agg_wait"
    /\ FetcherReturned
    /\ LET page_data == ar.response.body
           a == [agg EXCEPT
                   !.current_token = ar.result[1],
                   !.current_refresh = ar.result[2],
                   !.response_metadata =
                       PageMetadata(agg.page_count, page_data, @),
                   !.all_records = AddPageRecords(@, page_data),
                   !.previous_next_token = agg.next_token,
                   !.next_token = ExtractNextToken(page_data)]
       IN  /\ agg' = a
           /\ pages' = Append(pages, [data |-> page_data,
                                      access_token |-> ar.result[1],
                                      refresh_token |-> ar.result[2]])
           /\ IF StopPaging(a.next_token)
              THEN LET combined_data ==
                           CombinedData(a.response_metadata, a.all_records)
                   IN  /\ ret' = [data |-> combined_data,
                                  access_token |-> a.current_token,
                                  refresh_token |-> a.current_refresh]
                       /\ RunGetDataTail(combined_data, a.current_token,
                                         a.current_refresh)
              ELSE /\ pc' = "agg_loop"
                   /\ UNCHANGED <<secrets_file, ret, out, error>>
    /\ ar' = Idle
    /\ UNCHANGED <<cmd, issued, calls, rg, scan, refreshed>>
    /\ UNCHANGED <<store, oauth>>

\* a failed page fetch after which the aggregator returns what it has
PropagatePartial ==
    /\ pc \in {"fetch", "single", "agg_wait"}
    /\ FetcherRaised
    /\ IF pc = "agg_wait"
       THEN /\ ret' = [data |-> CombinedData(agg.response_metadata, agg.all_records),
                       access_token |-> agg.current_token,
                       refresh_token |-> agg.current_refresh]
            /\ out' = ret'.data
            /\ pc' = "done"
            /\ UNCHANGED error
       ELSE /\ pc' = "exit"
            /\ error' = FetcherError
            /\ UNCHANGED <<ret, out>>
    /\ ar' = Idle
    /\ UNCHANGED <<secrets_file, cmd, issued, agg, pages, calls, rg, scan, refreshed>>
    /\ UNCHANGED <<store, oauth>>

\* an error raised by a fetch leaves the fetcher, _fetch_all_pages and
\* run_get_data: nothing in them catches it
Propagate ==
    /\ pc \in {"fetch", "single", "agg_wait"}
    /\ FetcherRaised
    /\ pc' = "exit"
    /\ error' = FetcherError
    /\ ar' = Idle
    /\ UNCHANGED <<secrets_file, cmd, issued, agg, pages, calls, rg, scan,
                   refreshed, ret, out>>
    /\ UNCHANGED <<store, oauth>>

\* a data fetcher called on its own (lines 239-279)
FetchStart ==
    /\ pc = "start"
    /\ cmd.kind = "fetch"
    /\ ar' = DataFetcher(cmd.endpoint, cmd.access_token, cmd.refresh_token,
                         cmd.limit, cmd.next_token, cmd.start, cmd.end)
    /\ pc' = "fetch"
    /\ UNCHANGED <<secrets_file, cmd, issued, agg, pages, calls, rg, scan,
                   refreshed, ret, out, error>>
    /\ UNCHANGED <<store, oauth>>

FetchReturn ==
    /\ pc = "fetch"
    /\ FetcherReturned
    /\ ret' = [data |-> ar.response.body, access_token |-> ar.result[1],
               refresh_token |-> ar.result[2]]
    /\ pc' = "done"
    /\ ar' = Idle
    /\ UNCHANGED <<secrets_file, cmd, issued, agg, pages, calls, rg, scan,
                   refreshed, out, error>>
    /\ UNCHANGED <<store, oauth>>

(***************************************************************************)
(* run_daily_compliance_check, lines 891-993.                              *)
(***************************************************************************)
\* lines 921-925
endpoints == <<"sleep", "cycle", "recovery">>

NoRefresh == <<>>

ScanInit ==
    [band_id |-> 0, ep |-> 0, band_failures |-> <<>>, failures |-> <<>>,
     current_access_token |-> None, current_refresh_token |-> None,
     start_date |-> None, end_date |-> None]

\* lines 900-927, up to the loop over the bands
ComplianceStart ==
    /\ pc = "start"
    /\ cmd.kind = "compliance"
    /\ IF ~validate_date_format(cmd.date_str)
       THEN /\ pc' = "exit"
            /\ error' = SystemExit("InvalidDateFormat")
            /\ UNCHANGED <<secrets_file, scan>>
       ELSE LET c == get_client_credentials(secrets_file)
            IN  /\ secrets_file' = c.file
                /\ IF ~Truthy(c.client_id) \/ ~Truthy(c.client_secret)
                   THEN /\ pc' = "exit"
                        /\ error' = MissingCredentials
                        /\ UNCHANGED scan
                   ELSE /\ pc' = "scan_band"
                        /\ scan' = [ScanInit EXCEPT
                                      !.band_id = 1,
                                      !.start_date = S(cmd.date_str \o "T00:00:00.000Z"),
                                      !.end_date = S(cmd.date_str \o "T23:59:59.999Z")]
                        /\ UNCHANGED error
    /\ UNCHANGED <<cmd, ar, issued, agg, pages, calls, rg, refreshed, ret, out>>
    /\ UNCHANGED <<store, oauth>>

\* a variant of the test of line 932 that looks at the access token only
UnauthenticatedAccessOnly(access_token, refresh_token) ==
    ~Truthy(access_token)

\* line 932: the band has no usable token pair
Unauthenticated(access_token, refresh_token) ==
    ~Truthy(access_token) \/ ~Truthy(refresh_token)

\* lines 929-940 for one band, and lines 989-993 after the last band
ScanBand ==
    /\ pc = "scan_band"
    /\ IF scan.band_id > NUM_BANDS
       THEN /\ out' = IF DOMAIN scan.failures = {}
                      THEN S("DAILY COMPLIANCE SUCCESSFUL FOR ALL BANDS")
                      ELSE D(scan.failures)
            /\ pc' = "done"
            /\ UNCHANGED <<secrets_file, scan, refreshed>>
       ELSE LET b == get_band_tokens(secrets_file, scan.band_id)
            IN  /\ secrets_file' = b.file
                /\ UNCHANGED out
                /\ IF Unauthenticated(b.access_token, b.refresh_token)
                   THEN /\ scan' = [scan EXCEPT
                                      !.failures = Put(@, ToString(scan.band_id),
                                                       L(<<S("sleep"), S("cycle"),
                                                           S("recovery")>>)),
                                      !.band_id = @ + 1]
                        /\ UNCHANGED <<pc, refreshed>>
                   ELSE /\ scan' = [scan EXCEPT
                                      !.band_failures = <<>>,
                                      !.current_access_token = b.access_token,
                                      !.current_refresh_token = b.refresh_token,
                                      !.ep = 1]
                        /\ refreshed' = NoRefresh
                        /\ pc' = "scan_ep"
    /\ UNCHANGED <<cmd, ar, issued, agg, pages, calls, rg, ret, error>>
    /\ UNCHANGED <<store, oauth>>

\* lines 942-953: the request for one endpoint of the band
ScanFetch ==
    /\ pc = "scan_ep"
    /\ scan.ep <= Len(endpoints)
    /\ ar' = DataFetcher(endpoints[scan.ep], scan.current_access_token,
                         scan.current_refresh_token, 25, None,
                         scan.start_date, scan.end_date)
    /\ pc' = "scan_wait"
    /\ UNCHANGED <<secrets_file, cmd, issued, agg, pages, calls, rg, scan,
                   refreshed, ret, out, error>>
    /\ UNCHANGED <<store, oauth>>

\* a variant of lines 962-966 that takes records from a mapping only
ScanRecordsDictOnly(data) ==
    IF IsDict(data) /\ Has(data, "records") /\ IsList(data.d["records"])
    THEN data.d["records"].l
    ELSE <<>>

\* lines 962-966: the records of the page
ScanRecords(data) ==
    IF IsDict(data) /\ Has(data, "records")
    THEN (IF IsList(data.d["records"]) THEN data.d["records"].l ELSE <<>>)
    ELSE IF IsList(data) THEN data.l
    ELSE <<>>

\* lines 955-972: the page of one endpoint came back
ScanResult ==
    /\ pc = "scan_wait"
    /\ FetcherReturned
    /\ LET data == ar.response.body
           new_access_token == ar.result[1]
           new_refresh_token == ar.result[2]
           changed == TokensChanged(new_access_token, new_refresh_token,
                                    scan.current_access_token,
                                    scan.current_refresh_token)
           records == filter_ongoing_records_before_date(ScanRecords(data),
                                                         scan.start_date)
       IN  /\ secrets_file' =
                 IF changed
                 THEN save_band_tokens(secrets_file, scan.band_id,
                                       new_access_token, new_refresh_token).file
                 ELSE secrets_file
           /\ scan' = [scan EXCEPT
                         !.current_access_token =
                             IF changed THEN new_access_token ELSE @,
                         !.current_refresh_token =
                             IF changed THEN new_refresh_token ELSE @,
                         !.band_failures =
                             IF Len(records) = 0
                             THEN Append(@, S(endpoints[scan.ep])) ELSE @,
                         !.ep = @ + 1]
    /\ pc' = "scan_ep"
    /\ ar' = Idle
    /\ UNCHANGED <<cmd, issued, agg, pages, calls, rg, refreshed, ret, out, error>>
    /\ UNCHANGED <<store, oauth>>

\* a variant of lines 974-981 that lets the error end the scan
ScanExceptAbort ==
    /\ pc = "scan_wait"
    /\ FetcherRaised
    /\ error' = FetcherError
    /\ pc' = "exit"
    /\ ar' = Idle
    /\ UNCHANGED <<secrets_file, cmd, issued, agg, pages, calls, rg, scan,
                   refreshed, ret, out>>
    /\ UNCHANGED <<store, oauth>>

\* lines 974-981: the fetch of one endpoint raised
ScanExcept ==
    /\ pc = "scan_wait"
    /\ FetcherRaised
    /\ scan' = [scan EXCEPT
                  !.band_failures = Append(@, S(endpoints[scan.ep])),
                  !.ep = @ + 1]
    /\ pc' = "scan_ep"
    /\ ar' = Idle
    /\ UNCHANGED <<secrets_file, cmd, issued, agg, pages, calls, rg, refreshed,
                   ret, out, error>>
    /\ UNCHANGED <<store, oauth>>

\* lines 983-987: the band is done
ScanBandEnd ==
    /\ pc = "scan_ep"
    /\ scan.ep > Len(endpoints)
    /\ scan' = [scan EXCEPT
                  !.failures = IF scan.band_failures # <<>>
                               THEN Put(@, ToString(scan.band_id),
                                        L(scan.band_failures))
                               ELSE @,
                  !.band_id = @ + 1]
    /\ pc' = "scan_band"
    /\ UNCHANGED <<secrets_file, cmd, ar, issued, agg, pages, calls, rg,
                   refreshed, ret, out, error>>
    /\ UNCHANGED <<store, oauth>>

(***************************************************************************)
(* run_oauth_flow, lines 595-677, with OAuthCallbackHandler.do_GET, lines  *)
(* 39-65, and exchange_code_for_tokens, lines 95-112.                      *)
(***************************************************************************)
\* no callback captured: getattr(server, "auth_result", None), line 646
NoResult == [captured |-> FALSE]

NoRequest == [path |-> "", query |-> <<>>]

NoOAuth ==
    [state |-> None, request |-> NoRequest, result |-> NoResult,
     exchanged |-> FALSE, response |-> NoTokenResponse]

\* urllib.parse.parse_qs(query)[key], line 48: the values of the key in
\* their order, blank values left out
RECURSIVE ValuesOf(_, _)
ValuesOf(query, key) ==
    IF query = <<>> THEN <<>>
    ELSE LET rest == ValuesOf(Tail(query), key)
         IN  IF Head(query)[1] = key /\ Head(query)[2] # ""
             THEN <<S(Head(query)[2])>> \o rest
             ELSE rest

\* params.get(key, [None])[0], lines 49-55
FirstParam(query, key) ==
    IF ValuesOf(query, key) = <<>> THEN None ELSE ValuesOf(query, key)[1]

\* do_GET, lines 40-65: what the request leaves in server.auth_result
do_GET(request) ==
    IF request.path # "/callback"
    THEN NoResult
    ELSE [captured |-> TRUE,
          code |-> FirstParam(request.query, "code"),
          state |-> FirstParam(request.query, "state"),
          error |-> FirstParam(request.query, "error")]

\* a variant of lines 646-657 without the comparison of the state
CallbackErrorStateUnchecked(result, state) ==
    IF ~result.captured THEN SystemExit("NoAuthorizationResponse")
    ELSE IF Truthy(result.error) THEN SystemExit("AuthorizationFailed")
    ELSE IF ~Truthy(result.code) THEN SystemExit("MissingAuthorizationCode")
    ELSE NoError

\* lines 646-657: the error the captured callback ends the flow with, if any
CallbackError(result, state) ==
    IF ~result.captured THEN SystemExit("NoAuthorizationResponse")
    ELSE IF Truthy(result.error) THEN SystemExit("AuthorizationFailed")
    ELSE IF result.state # state THEN SystemExit("StateMismatch")
    ELSE IF ~Truthy(result.code) THEN SystemExit("MissingAuthorizationCode")
    ELSE NoError

\* values secrets.token_urlsafe(16) may return (line 622)
FlowStates == {S("s1"), S("s2")}

\* the one request the local server may get: the redirect of the browser,
\* with or without code, state and error, or another request
CallbackRequests ==
    {[path |-> "/callback", query |-> q] :
        q \in {<<<<"code", "c">>, <<"state", "s1">>>>,
               <<<<"state", "s1">>, <<"code", "c">>, <<"error", "">>>>,
               <<<<"code", "c">>, <<"state", "s2">>>>,
               <<<<"code", "c">>>>,
               <<<<"state", "s1">>>>,
               <<<<"code", "">>, <<"state", "s1">>>>,
               <<<<"code", "c">>, <<"state", "s1">>, <<"error", "access_denied">>>>,
               <<<<"error", "access_denied">>, <<"state", "s1">>>>,
               <<<<"code", "c">>, <<"state", "s2">>, <<"state", "s1">>>>,
               <<>>}}
    \cup {[path |-> "/favicon.ico", query |-> <<<<"code", "c">>, <<"state", "s1">>>>]}

\* what the token endpoint may answer to the exchange of the code
ExchangeResponses ==
    {[status |-> st, body |-> b, fresh |-> 0] :
        st \in {200, 300},
        b \in {[access_token |-> S("A"), refresh_token |-> S("R")],
               [access_token |-> S("A")],
               [refresh_token |-> S("R")],
               [access_token |-> S("A"), refresh_token |-> None],
               [access_token |-> N(5), refresh_token |-> S("R")],
               [access_token |-> S(""), refresh_token |-> S("")],
               <<>>}}
    \cup {[status |-> 400, body |-> <<>>, fresh |-> 0],
          [status |-> 200, body |-> NotJson, fresh |-> 0],
          [status |-> 304, body |-> NotJson, fresh |-> 0]}

\* lines 602-627: the credentials, the redirect URI, the state
OAuthStart ==
    /\ pc = "start"
    /\ cmd.kind = "oauth"
    /\ LET c == get_client_credentials(secrets_file)
       IN  /\ secrets_file' = c.file
           /\ IF ~Truthy(c.client_id) \/ ~Truthy(c.client_secret)
              THEN /\ pc' = "exit"
                   /\ error' = MissingCredentials
                   /\ UNCHANGED oauth
              ELSE IF ~cmd.redirect_ok
              THEN /\ pc' = "exit"
                   /\ error' = SystemExit("BadRedirectUri")
                   /\ UNCHANGED oauth
              ELSE /\ \E state \in FlowStates :
                        oauth' = [NoOAuth EXCEPT !.state = state]
                   /\ pc' = "oauth_listen"
                   /\ UNCHANGED error
    /\ UNCHANGED <<cmd, ar, issued, agg, pages, calls, rg, scan, refreshed,
                   ret, out, store>>

\* lines 639-657: server.handle_request() serves one request, then the
\* checks of the result
OAuthCallback ==
    /\ pc = "oauth_listen"
    /\ \E request \in CallbackRequests :
         LET result == do_GET(request)
             e == CallbackError(result, oauth.state)
         IN  /\ oauth' = [oauth EXCEPT !.request = request, !.result = result]
             /\ error' = e
             /\ pc' = IF e = NoError THEN "oauth_exchange" ELSE "exit"
    /\ UNCHANGED <<secrets_file, cmd, ar, issued, agg, pages, calls, rg, scan,
                   refreshed, ret, out, store>>

\* lines 668-670: tokens.get(...) of both keys is a str
TokensValid(tokens) ==
    /\ "access_token" \in DOMAIN tokens
    /\ IsStr(tokens["access_token"])
    /\ "refresh_token" \in DOMAIN tokens
    /\ IsStr(tokens["refresh_token"])

\* lines 659-677: exchange_code_for_tokens (lines 95-112), then the tokens
\* are saved and printed, or the flow ends with an error
OAuthExchange ==
    /\ pc = "oauth_exchange"
    /\ \E r \in ExchangeResponses :
         /\ oauth' = [oauth EXCEPT !.exchanged = TRUE, !.response = r]
         /\ IF RaisesForStatus(r.status)
            THEN /\ pc' = "exit"
                 /\ error' = HTTPError(r.status)
                 /\ UNCHANGED <<secrets_file, out>>
            ELSE IF r.body = NotJson
            THEN /\ pc' = "exit"
                 /\ error' = OtherError("JSONDecodeError")
                 /\ UNCHANGED <<secrets_file, out>>
            ELSE IF TokensValid(r.body)
            THEN LET w == save_band_tokens(secrets_file, cmd.band_id,
                                           r.body["access_token"],
                                           r.body["refresh_token"])
                 IN  /\ secrets_file' = w.file
                     /\ pc' = "done"
                     /\ out' = D(r.body)
                     /\ UNCHANGED error
            ELSE /\ pc' = "exit"
                 /\ error' = SystemExit("InvalidTokens")
                 /\ UNCHANGED <<secrets_file, out>>
    /\ UNCHANGED <<cmd, ar, issued, agg, pages, calls, rg, scan, refreshed,
                   ret, store>>

(***************************************************************************)
(* The invocations and the credential files a behaviour starts from.       *)
(***************************************************************************)
\* the token pair a band holds after its authorization flow
BandAccess(b) == S("a" \o ToString(b))
BandRefresh(b) == S("r" \o ToString(b))
FullBand(b) == [access_token |-> BandAccess(b), refresh_token |-> BandRefresh(b)]

\* a document with the given client credentials and the given bands authorized
DocWith(client_id, client_secret, authorized) ==
    [k \in DOMAIN InitialDoc |->
        IF k = "client_id" THEN S(client_id)
        ELSE IF k = "client_secret" THEN S(client_secret)
        ELSE IF \E b \in authorized : k = ToString(b)
             THEN FullBand(CHOOSE b \in authorized : k = ToString(b))
             ELSE EmptyBand]

\* the same without the key of band b
Without(doc, b) == [k \in DOMAIN doc \ {ToString(b)} |-> doc[k]]

Files ==
    {Absent,
     File(DocWith("cid", "sec", {})),
     File(DocWith("cid", "sec", {10})),
     File(DocWith("cid", "sec", {9, 10})),
     File(Without(DocWith("cid", "sec", {10}), 9)),
     File(Put(DocWith("cid", "sec", {10}), "9",
              [access_token |-> BandAccess(9), refresh_token |-> None])),
     File(DocWith("", "sec", {10}))}

DayStart == S("2024-01-15T00:00:00.000Z")
DayEnd == S("2024-01-15T23:59:59.999Z")

GetDataCommands ==
    {[kind |-> "get_data", endpoint |-> "sleep", band_id |-> b, limit |-> 25,
      fetch_all |-> FALSE, start |-> r[1], end |-> r[2]] :
        b \in {9, 10}, r \in {<<None, None>>, <<DayStart, DayEnd>>}}
    \cup {[kind |-> "get_data", endpoint |-> "sleep", band_id |-> 10, limit |-> 25,
           fetch_all |-> TRUE, start |-> DayStart, end |-> DayEnd]}

ComplianceCommands ==
    {[kind |-> "compliance", date_str |-> d] : d \in {"2024-01-15", "2024-13-40"}}

FetchCommands ==
    {[kind |-> "fetch", endpoint |-> "workout", access_token |-> S("a1"),
      refresh_token |-> r, limit |-> 25, next_token |-> None,
      start |-> None, end |-> None] : r \in {S("r1"), S(""), None}}

\* the credential files an invocation is started on
FilesFor(c) ==
    IF c.kind = "fetch" THEN {Absent}
    ELSE IF c.kind = "get_data" /\ c.fetch_all
    THEN {File(DocWith("cid", "sec", {9, 10})), File(DocWith("cid", "sec", {}))}
    ELSE Files

Init ==
    /\ cmd \in GetDataCommands \cup ComplianceCommands \cup FetchCommands
    /\ secrets_file \in FilesFor(cmd)
    /\ pc = "start"
    /\ ar = Idle
    /\ issued = 0
    /\ agg = FetchAllPagesInit(None, None)
    /\ pages = <<>>
    /\ calls = <<>>
    /\ rg = [access_token |-> None, refresh_token |-> None]
    /\ scan = ScanInit
    /\ refreshed = NoRefresh
    /\ ret = None
    /\ out = None
    /\ error = NoError
    /\ oauth = NoOAuth
    /\ store = NoStore

Next ==
    \/ FetchStart
    \/ FetchReturn
    \/ RunGetDataStart
    \/ RunGetDataPage
    \/ FetchAllPagesLoop
    \/ FetchAllPagesPage
    \/ Propagate
    \/ ComplianceStart
    \/ ScanBand
    \/ ScanFetch
    \/ ScanResult
    \/ ScanExcept
    \/ ScanBandEnd
    \/ ArSend
    \/ ArRefresh
    \/ ArRetry

Spec == Init /\ [][Next]_vars

(***************************************************************************)
(* The credential store used on its own: one caller that calls            *)
(* get_band_tokens and save_band_tokens one after the other.               *)
(***************************************************************************)
MaxOps == 3        \* store operations in one behaviour

\* band ids a caller may pass: the ends of the range and their neighbours
StoreBands == {0, 1, NUM_BANDS, NUM_BANDS + 1}

\* token pairs a caller may save
StorePairs == {<<S("x"), S("y")>>, <<S("y"), S("x")>>, <<S(""), S("x")>>}

\* the credential files the caller may find: none, the initial one, one whose
\* band 1 has no record, one whose band 1 has an empty record, one whose
\* band 10 holds nulls
StoreFiles ==
    {Absent,
     File(InitialDoc),
     File(Without(DocWith("cid", "sec", {10}), 1)),
     File(Put(DocWith("cid", "sec", {10}), "1", <<>>)),
     File(Put(DocWith("cid", "sec", {1}), "10",
              [access_token |-> None, refresh_token |-> None]))}

ValueError == OtherError("ValueError")

\* no write of the file yet
NoWrite == [op |-> "none", band_id |-> 0, access_token |-> None, refresh_token |-> None]

\* the caller's record: the last call, its outcome, the file it found, and
\* the last call that wrote the file, before the call (seen) and after it
StoreStart ==
    [kind |-> "seq", n |-> 0, op |-> "none", band_id |-> 0,
     access_token |-> None, refresh_token |-> None,
     raised |-> FALSE, error |-> NoError, result |-> <<None, None>>,
     before |-> Absent, seen |-> NoWrite, last_write |-> NoWrite]

\* lines 55-78 of secret_store.py called by the caller
StoreGet ==
    /\ store.kind = "seq"
    /\ store.n < MaxOps
    /\ \E band_id \in StoreBands :
         LET g == get_band_tokens(secrets_file, band_id)
         IN  /\ secrets_file' = g.file
             /\ store' = [store EXCEPT
                   !.n = @ + 1, !.op = "get", !.band_id = band_id,
                   !.access_token = None, !.refresh_token = None,
                   !.raised = g.raised,
                   !.error = IF g.raised THEN ValueError ELSE NoError,
                   !.result = <<g.access_token, g.refresh_token>>,
                   !.before = secrets_file,
                   !.seen = store.last_write,
                   !.last_write =
                       IF g.file # secrets_file
                       THEN [op |-> "get", band_id |-> band_id,
                             access_token |-> None, refresh_token |-> None]
                       ELSE @]
    /\ UNCHANGED <<cmd, pc, ar, issued, agg, pages, calls, rg, scan,
                   refreshed, ret, out, error, oauth>>

\* lines 81-106 of secret_store.py called by the caller
StoreSave ==
    /\ store.kind = "seq"
    /\ store.n < MaxOps
    /\ \E band_id \in StoreBands : \E pair \in StorePairs :
         LET w == save_band_tokens(secrets_file, band_id, pair[1], pair[2])
         IN  /\ secrets_file' = w.file
             /\ store' = [store EXCEPT
                   !.n = @ + 1, !.op = "save", !.band_id = band_id,
                   !.access_token = pair[1], !.refresh_token = pair[2],
                   !.raised = w.raised,
                   !.error = IF w.raised THEN ValueError ELSE NoError,
                   !.result = <<None, None>>,
                   !.before = secrets_file,
                   !.seen = store.last_write,
                   !.last_write =
                       IF w.raised THEN @
                       ELSE [op |-> "save", band_id |-> band_id,
                             access_token |-> pair[1], refresh_token |-> pair[2]]]
    /\ UNCHANGED <<cmd, pc, ar, issued, agg, pages, calls, rg, scan,
                   refreshed, ret, out, error, oauth>>

StoreInit ==
    /\ secrets_file \in StoreFiles
    /\ store = StoreStart
    /\ cmd = [kind |-> "store"]
    /\ pc = "store"
    /\ ar = Idle
    /\ issued = 0
    /\ agg = FetchAllPagesInit(None, None)
    /\ pages = <<>>
    /\ calls = <<>>
    /\ rg = [access_token |-> None, refresh_token |-> None]
    /\ scan = ScanInit
    /\ refreshed = NoRefresh
    /\ ret = None
    /\ out = None
    /\ error = NoError
    /\ oauth = NoOAuth

StoreNext ==
    \/ StoreGet
    \/ StoreSave

StoreSpec == StoreInit /\ [][StoreNext]_vars

(***************************************************************************)
(* Two invocations of the program that call save_band_tokens on the same  *)
(* file.  Nothing in secret_store.py locks the file: the read of the       *)
(* document (load_secrets, line 98) and its write (save_secrets, line 106) *)
(* are two steps, and the steps of the two invocations interleave.         *)
(***************************************************************************)
Procs == {1, 2}

\* an invocation about to call save_band_tokens(band_id, pair[1], pair[2])
RaceProc(band_id, pair) ==
    [pc |-> "start", band_id |-> band_id,
     access_token |-> pair[1], refresh_token |-> pair[2],
     secrets |-> <<>>, loaded_at |-> 0]

\* writes: the invocations in the order of their writes; loaded_at: how many
\* writes had been made when the invocation read the document
RaceStarts ==
    {[kind |-> "race", writes |-> <<>>,
      procs |-> [p \in Procs |-> IF p = 1 THEN RaceProc(b1, p1) ELSE RaceProc(b2, p2)]] :
        b1 \in {1, NUM_BANDS}, b2 \in {1, NUM_BANDS}, p1 \in StorePairs, p2 \in StorePairs}

\* a save that reads the document again when it writes
RaceSaveReloading(p) ==
    /\ store.kind = "race"
    /\ store.procs[p].pc = "loaded"
    /\ LET me == store.procs[p]
       IN  secrets_file' = save_band_tokens(secrets_file, me.band_id,
                                            me.access_token, me.refresh_token).file
    /\ store' = [store EXCEPT !.procs[p].pc = "done", !.writes = Append(@, p)]
    /\ UNCHANGED <<cmd, pc, ar, issued, agg, pages, calls, rg, scan,
                   refreshed, ret, out, error, oauth>>

\* lines 95-99 of save_band_tokens: the range check and load_secrets
RaceLoad(p) ==
    /\ store.kind = "race"
    /\ store.procs[p].pc = "start"
    /\ ValidBand(store.procs[p].band_id)
    /\ secrets_file' = load_secrets(secrets_file)
    /\ store' = [store EXCEPT !.procs[p].pc = "loaded",
                              !.procs[p].secrets = secrets_file'.doc,
                              !.procs[p].loaded_at = Len(store.writes)]
    /\ UNCHANGED <<cmd, pc, ar, issued, agg, pages, calls, rg, scan,
                   refreshed, ret, out, error, oauth>>

\* lines 101-106 of save_band_tokens: the document read earlier is changed
\* and written
RaceSave(p) ==
    /\ store.kind = "race"
    /\ store.procs[p].pc = "loaded"
    /\ LET me == store.procs[p]
       IN  secrets_file' = save_band_tokens(File(me.secrets), me.band_id,
                                            me.access_token, me.refresh_token).file
    /\ store' = [store EXCEPT !.procs[p].pc = "done", !.writes = Append(@, p)]
    /\ UNCHANGED <<cmd, pc, ar, issued, agg, pages, calls, rg, scan,
                   refreshed, ret, out, error, oauth>>

RaceInit ==
    /\ secrets_file \in StoreFiles
    /\ store \in RaceStarts
    /\ cmd = [kind |-> "store"]
    /\ pc = "store"
    /\ ar = Idle
    /\ issued = 0
    /\ agg = FetchAllPagesInit(None, None)
    /\ pages = <<>>
    /\ calls = <<>>
    /\ rg = [access_token |-> None, refresh_token |-> None]
    /\ scan = ScanInit
    /\ refreshed = NoRefresh
    /\ ret = None
    /\ out = None
    /\ error = NoError
    /\ oauth = NoOAuth

RaceNext ==
    \/ \E p \in Procs : RaceLoad(p)
    \/ \E p \in Procs : RaceSave(p)

RaceSpec == RaceInit /\ [][RaceNext]_vars

(***************************************************************************)
(* The date and filter functions called on their own: one call per         *)
(* behaviour, its arguments in cmd, its result in ret or error.            *)
(***************************************************************************)
MaxRecords == 2    \* entries of a list of records

\* stands for a key a record does not have
NoKey == [t |-> "nokey"]

\* a record with the given start and end values
Entry(start, end) ==
    D([k \in {"id"} \cup (IF start = NoKey THEN {} ELSE {"start"})
                     \cup (IF end = NoKey THEN {} ELSE {"end"}) |->
        IF k = "id" THEN N(1) ELSE IF k = "start" THEN start ELSE end])

\* start values around the bound DayStart, and none
StartValues ==
    {NoKey, None, S(""), S("2024-01-14T22:00:00.000Z"), DayStart,
     S("2024-01-15T08:00:00.000Z")}

EndValues == {NoKey, None, S("2024-01-15T09:00:00.000Z")}

Entries == {Entry(st, en) : st \in StartValues, en \in EndValues} \cup {N(5)}

RecordLists == UNION {[1..n -> Entries] : n \in 0..MaxRecords}

\* what --start may hold
DateStrings ==
    {None, S(""), S("2024-01-15"), S("2024-02-29"), S("2023-02-29"),
     S("2024-13-40"), S("2024-02-30"), S("2024-1-5"), S("2024-01- 5"),
     S("0000-01-01"), S("20240115"), S("2024-01-15 "), S("15-01-2024"),
     S("2024-01-15T08:00:00.000Z"), S("T"), S("today")}

Calls ==
    {[kind |-> "filter_records_by_start_date", records |-> L(rs), start |-> st] :
        rs \in RecordLists, st \in {None, DayStart}}
    \cup {[kind |-> "filter_ongoing_records_before_date", records |-> rs,
           start |-> DayStart] : rs \in RecordLists}
    \cup {[kind |-> "format_date_for_api", date_str |-> d, is_end |-> e] :
           d \in DateStrings, e \in BOOLEAN}

CallFilterByStart ==
    /\ pc = "start"
    /\ cmd.kind = "filter_records_by_start_date"
    /\ LET r == filter_records_by_start_date(cmd.records, cmd.start)
       IN  /\ pc' = IF r.raised THEN "exit" ELSE "done"
           /\ ret' = IF r.raised THEN None ELSE r.value
           /\ error' = IF r.raised THEN TypeError ELSE NoError
    /\ UNCHANGED <<secrets_file, cmd, ar, issued, agg, pages, calls, rg, scan,
                   refreshed, out, store, oauth>>

CallFilterOngoing ==
    /\ pc = "start"
    /\ cmd.kind = "filter_ongoing_records_before_date"
    /\ ret' = L(filter_ongoing_records_before_date(cmd.records, cmd.start))
    /\ pc' = "done"
    /\ UNCHANGED <<secrets_file, cmd, ar, issued, agg, pages, calls, rg, scan,
                   refreshed, out, error, store, oauth>>

CallFormatDate ==
    /\ pc = "start"
    /\ cmd.kind = "format_date_for_api"
    /\ LET r == format_date_for_api(cmd.date_str, cmd.is_end)
       IN  /\ pc' = IF r.raised THEN "exit" ELSE "done"
           /\ ret' = r.value
           /\ error' = IF r.raised THEN SystemExit("InvalidDateFormat") ELSE NoError
    /\ UNCHANGED <<secrets_file, cmd, ar, issued, agg, pages, calls, rg, scan,
                   refreshed, out, store, oauth>>

CallInit ==
    /\ cmd \in Calls
    /\ pc = "start"
    /\ secrets_file = Absent
    /\ store = NoStore
    /\ ar = Idle
    /\ issued = 0
    /\ agg = FetchAllPagesInit(None, None)
    /\ pages = <<>>
    /\ calls = <<>>
    /\ rg = [access_token |-> None, refresh_token |-> None]
    /\ scan = ScanInit
    /\ refreshed = NoRefresh
    /\ ret = None
    /\ out = None
    /\ error = NoError
    /\ oauth = NoOAuth

CallNext ==
    \/ CallFilterByStart
    \/ CallFilterOngoing
    \/ CallFormatDate

CallSpec == CallInit /\ [][CallNext]_vars

(***************************************************************************)
(* The authorization flow run on its own: one invocation of run_oauth_flow *)
(* per behaviour.                                                          *)
(***************************************************************************)
OAuthCommands ==
    {[kind |-> "oauth", band_id |-> b, redirect_ok |-> ok] :
        b \in {1, NUM_BANDS}, ok \in BOOLEAN}

\* the credential files the flow may find
OAuthFiles ==
    {Absent,
     File(InitialDoc),
     File(DocWith("cid", "sec", {})),
     File(DocWith("cid", "sec", {NUM_BANDS})),
     File(Without(DocWith("cid", "sec", {NUM_BANDS}), 1)),
     File(DocWith("cid", "", {1}))}

OAuthInit ==
    /\ cmd \in OAuthCommands
    /\ secrets_file \in OAuthFiles
    /\ pc = "start"
    /\ oauth = NoOAuth
    /\ store = NoStore
    /\ ar = Idle
    /\ issued = 0
    /\ agg = FetchAllPagesInit(None, None)
    /\ pages = <<>>
    /\ calls = <<>>
    /\ rg = [access_token |-> None, refresh_token |-> None]
    /\ scan = ScanInit
    /\ refreshed = NoRefresh
    /\ ret = None
    /\ out = None
    /\ error = NoError

OAuthNext ==
    \/ OAuthStart
    \/ OAuthCallback
    \/ OAuthExchange

OAuthSpec == OAuthInit /\ [][OAuthNext]_vars

(***************************************************************************)
(* Properties of authenticated_request.                                    *)
(***************************************************************************)
\* the token endpoint answered this activation with a usable access token
RefreshSucceeded ==
    /\ ar.n_refresh >= 1
    /\ ar.refresh_response.status \in 200..299
    /\ "access_token" \in DOMAIN ar.refresh_response.body
    /\ Truthy(ar.refresh_response.body["access_token"])

\* the pair the token endpoint's answer stands for
RefreshedAccess == ar.refresh_response.body["access_token"]
RefreshedRefresh ==
    IF "refresh_token" \in DOMAIN ar.refresh_response.body
    THEN ar.refresh_response.body["refresh_token"]
    ELSE ar.refresh_token

\* C1: within one execution of authenticated_request, whatever the server
\* answers, the token endpoint is called at most once and the data request is
\* sent at most twice.
C1_AtMostOneRefreshTwoRequests ==
    /\ ar.n_refresh <= 1
    /\ Len(ar.sent) <= 2

\* an execution that refreshed once and sent the request twice
C1_Witness ==
    /\ ar.pc = "returned"
    /\ ar.n_refresh = 1
    /\ Len(ar.sent) = 2

\* C2: when the first response is 401, a refresh token is available and the
\* refresh succeeds with an access token, the same request is re-issued exactly
\* once, its Authorization header carries the new access token and not the old
\* one, and on a 2xx answer to it the executor returns the new token pair.
C2_RetryOnceWithNewToken ==
    RefreshSucceeded =>
        /\ ar.pc \in {"retry", "returned", "raised"}
        /\ ar.n_refresh = 1
        /\ ar.pc = "retry" =>
              /\ Len(ar.sent) = 1
              /\ ar.headers = RefreshedAccess
        /\ ar.pc \in {"returned", "raised"} =>
              /\ Len(ar.sent) = 2
              /\ ar.sent[2].authorization = RefreshedAccess
              /\ ar.sent[2].authorization # ar.sent[1].authorization
              /\ ar.sent[2].authorization # ar.access_token
              /\ ar.sent[2].url = ar.sent[1].url
              /\ ar.sent[2].params = ar.sent[1].params
              /\ ar.response.status \in 200..299 =>
                    /\ ar.pc = "returned"
                    /\ ar.result = <<RefreshedAccess, RefreshedRefresh>>

\* a 401, a successful refresh, a 200 on the retry
C2_Witness ==
    /\ RefreshSucceeded
    /\ ar.pc = "returned"
    /\ ar.response.status = 200
    /\ ar.sent[1].authorization = ar.access_token
    /\ ar.result[1] # ar.access_token
    /\ ar.result[2] # ar.refresh_token

\* C3: when the first response is 401, the refresh succeeds and the retried
\* request is answered 401 too, authenticated_request fails with an HTTP error
\* of status 401, without a second refresh and without a third request.
C3_Second401IsFatal ==
    (RefreshSucceeded /\ Len(ar.sent) >= 2 /\ ar.response.status = 401) =>
        /\ ar.pc = "raised"
        /\ ar.error = HTTPError(401)
        /\ ar.n_refresh = 1
        /\ Len(ar.sent) = 2

\* the second 401 has been received
C3_Witness ==
    /\ RefreshSucceeded
    /\ Len(ar.sent) = 2
    /\ ar.response.status = 401
    /\ ar.pc = "raised"

(***************************************************************************)
(* Properties of the persistence of refreshed tokens.                      *)
(***************************************************************************)
\* the access/refresh pair the file holds for a band
StoredPair(band_id) ==
    LET band_data == secrets_file.doc[ToString(band_id)]
    IN  <<band_data["access_token"], band_data["refresh_token"]>>

\* a refresh succeeded and gave a new access token and a new refresh token
NewPairIssued ==
    /\ refreshed # NoRefresh
    /\ IsStr(refreshed[1])
    /\ IsStr(refreshed[2])

\* C4: whenever a token refresh succeeds during a data command (single page or
\* --all), the credential record of the device holds the new pair when the
\* command ends, whatever the outcome of the requests that followed the refresh.
C4_RefreshAlwaysPersisted ==
    (cmd.kind = "get_data" /\ pc \in {"done", "exit"} /\ NewPairIssued) =>
        StoredPair(cmd.band_id) = refreshed

\* a data command that refreshed and saved the new pair
C4_Witness ==
    /\ cmd.kind = "get_data"
    /\ pc = "done"
    /\ refreshed # NoRefresh
    /\ StoredPair(cmd.band_id) = refreshed

\* C5: in the compliance scan every successful refresh for a device is in the
\* credential store before the next endpoint fetch starts, and the following
\* endpoints of the device are fetched with the refreshed pair.
C5_ScanPersistsBeforeNextFetch ==
    (/\ cmd.kind = "compliance"
     /\ pc = "scan_ep" \/ (pc = "scan_wait" /\ ar.pc = "send")
     /\ NewPairIssued) =>
        /\ StoredPair(scan.band_id) = refreshed
        /\ <<scan.current_access_token, scan.current_refresh_token>> = refreshed
        /\ ar.pc = "send" => <<ar.access_token, ar.refresh_token>> = refreshed

\* a scan that refreshed on one endpoint and fetches the next one with the
\* saved pair
C5_Witness ==
    /\ cmd.kind = "compliance"
    /\ pc = "scan_wait"
    /\ ar.pc = "send"
    /\ scan.ep > 1
    /\ refreshed # NoRefresh
    /\ StoredPair(scan.band_id) = refreshed
    /\ <<ar.access_token, ar.refresh_token>> = refreshed

(***************************************************************************)
(* Properties of _fetch_all_pages.                                         *)
(***************************************************************************)
\* the next_token value of a page as the server sent it
RawCursor(page_data) ==
    IF IsDict(page_data) /\ Has(page_data, "next_token")
    THEN page_data.d["next_token"]
    ELSE None

AllSpace(s) == \A i \in 1..Len(s) : IsSpace(Char(s, i))

\* null, missing, empty or whitespace-only
TerminalCursor(c) == c = None \/ (IsStr(c) /\ AllSpace(c.s))
\* a string with something else than whitespace in it
CursorString(c) == IsStr(c) /\ ~AllSpace(c.s)

\* C6: when the server returns the same non-empty cursor on successive pages,
\* the aggregator terminates: once two successive pages carried the same
\* cursor, no further page is requested.
C6_RepeatedCursorStops ==
    \A k \in 2..Len(pages) :
        (/\ CursorString(RawCursor(pages[k].data))
         /\ RawCursor(pages[k].data) = RawCursor(pages[k - 1].data)) =>
            agg.page_count = k

\* two successive pages carried the cursor "a"
C6_Witness ==
    /\ Len(pages) >= 2
    /\ RawCursor(pages[1].data) = S("a")
    /\ RawCursor(pages[2].data) = S("a")

RECURSIVE ConcatAll(_)
ConcatAll(ss) == IF ss = <<>> THEN <<>> ELSE Head(ss) \o ConcatAll(Tail(ss))

\* the aggregator returned (and run_get_data went on to its end)
Aggregated == cmd.kind = "get_data" /\ cmd.fetch_all /\ ret # None

\* C7: _fetch_all_pages stops at the first page whose next_token is null,
\* missing, empty or whitespace-only and fetches no page after it, and it does
\* not stop at a page whose cursor is a string with a non-blank character; for
\* pages with cursors "a", "b", "" exactly three pages are fetched and the
\* records of all three are aggregated.
C7_StopsAtFirstTerminalCursor ==
    /\ \A k \in 1..Len(pages) :
          /\ TerminalCursor(RawCursor(pages[k].data)) =>
                /\ k = Len(pages)
                /\ agg.page_count = k
                /\ Len(calls) = k
                /\ Aggregated
                /\ pc = "done"
          /\ (CursorString(RawCursor(pages[k].data)) /\ k = Len(pages)) =>
                /\ ~Aggregated
                /\ pc \in {"agg_loop", "agg_wait", "exit"}
    /\ (/\ Len(pages) >= 3
        /\ RawCursor(pages[1].data) = S("a")
        /\ RawCursor(pages[2].data) = S("b")
        /\ RawCursor(pages[3].data) = S("")) =>
          /\ Len(pages) = 3
          /\ agg.page_count = 3
          /\ Aggregated
          /\ (\A k \in 1..3 : IsList(pages[k].data.d["records"])) =>
                ret.data.d["records"] =
                    L(pages[1].data.d["records"].l \o pages[2].data.d["records"].l
                      \o pages[3].data.d["records"].l)

\* the cursors "a", "b", "" with records on every page
C7_Witness ==
    /\ Len(pages) = 3
    /\ RawCursor(pages[1].data) = S("a")
    /\ RawCursor(pages[2].data) = S("b")
    /\ RawCursor(pages[3].data) = S("")
    /\ \A k \in 1..3 : IsList(pages[k].data.d["records"])
                        /\ pages[k].data.d["records"].l # <<>>
    /\ pc = "done"
    /\ Len(ret.data.d["records"].l) = 4

\* C8: the token pair the fetch of page k returned is the pair the fetch of
\* page k+1 is called with (the first page is called with the pair given to the
\* aggregator), a token replaced by a refresh on some page is passed to no later
\* page, and the aggregator returns the pair the last page fetch returned.
C8_TokensThreaded ==
    /\ \A k \in 1..Len(calls) :
          <<calls[k].access_token, calls[k].refresh_token>> =
              IF k = 1 THEN <<rg.access_token, rg.refresh_token>>
              ELSE <<pages[k - 1].access_token, pages[k - 1].refresh_token>>
    /\ \A j \in 1..Len(pages) : \A k \in (j + 1)..Len(calls) :
          /\ pages[j].access_token # calls[j].access_token =>
                calls[k].access_token # calls[j].access_token
          /\ pages[j].refresh_token # calls[j].refresh_token =>
                calls[k].refresh_token # calls[j].refresh_token
    /\ Aggregated =>
          /\ ret.access_token = pages[Len(pages)].access_token
          /\ ret.refresh_token = pages[Len(pages)].refresh_token

\* a refresh on page 1, the new pair used for page 2 and returned
C8_Witness ==
    /\ Aggregated
    /\ Len(pages) >= 2
    /\ pages[1].access_token # calls[1].access_token
    /\ pages[1].refresh_token # calls[1].refresh_token
    /\ calls[2].access_token = pages[1].access_token
    /\ ret.access_token = pages[1].access_token

\* the records lines 743-752 take from one page
CodeRecords(page_data) ==
    IF IsDict(page_data) /\ Has(page_data, "records")
    THEN (IF IsList(page_data.d["records"]) THEN page_data.d["records"].l ELSE <<>>)
    ELSE IF IsList(page_data) THEN page_data.l
    ELSE <<page_data>>

\* C9: when _fetch_all_pages completes, the records of its result are the
\* concatenation of the records of every page fetched, in page order and in
\* each page's own order; the other keys of the result are those of the first
\* page, with their values; and next_token is null.
C9_Concatenation ==
    Aggregated =>
        LET result == ret.data.d
            first == pages[1].data
            meta == IF IsDict(first)
                    THEN DOMAIN first.d \ {"records", "next_token"} ELSE {}
        IN  /\ result["records"] =
                  L(ConcatAll([k \in 1..Len(pages) |-> CodeRecords(pages[k].data)]))
            /\ DOMAIN result \ {"records", "next_token"} = meta
            /\ \A key \in meta : result[key] = first.d[key]
            /\ result["next_token"] = None

\* two pages with records, the second with keys the first has not
C9_Witness ==
    /\ Aggregated
    /\ Len(pages) = 2
    /\ pages[1].data = Page(L(<<Rec1>>), S("b"), NoMeta)
    /\ pages[2].data = Page(L(<<Rec2, Rec1>>), None, Meta2)
    /\ ret.data = Page(L(<<Rec1, Rec2, Rec1>>), None, NoMeta)

\* the records the three-way rule takes from one page: the records list, the
\* entries of a list payload, or else the whole page
ThreeWayRecords(page_data) ==
    IF IsDict(page_data) /\ Has(page_data, "records")
       /\ IsList(page_data.d["records"])
    THEN page_data.d["records"].l
    ELSE IF IsList(page_data) THEN page_data.l
    ELSE <<page_data>>

\* C10: for each page the aggregator takes as records the list under the
\* records key when the key is present and a list, the payload's entries when
\* the payload is a list, and in every other case (a mapping whose records
\* value is not a list included) the whole page as one record.
C10_ThreeWayExtraction ==
    agg.all_records =
        ConcatAll([k \in 1..Len(pages) |-> ThreeWayRecords(pages[k].data)])

\* C10, amended: a mapping with a records key whose value is not a list
\* contributes no record; a mapping with a list under records contributes that
\* list, a list payload its entries, and any other payload (a mapping without
\* a records key, a scalar) itself as one record.
C10_ExtractionAmended ==
    agg.all_records =
        ConcatAll([k \in 1..Len(pages) |->
            LET p == pages[k].data
            IN  IF IsDict(p)
                THEN IF Has(p, "records")
                     THEN (IF IsList(p.d["records"]) THEN p.d["records"].l ELSE <<>>)
                     ELSE <<p>>
                ELSE IF IsList(p) THEN p.l
                ELSE <<p>>])

\* the four shapes met in one aggregation or another: here a mapping whose
\* records value is null, followed by a list payload
C10_Witness ==
    /\ Len(pages) = 2
    /\ pages[1].data = Page(None, S("a"), NoMeta)
    /\ pages[2].data = L(<<Rec1, N(5)>>)
    /\ agg.all_records = <<Rec1, N(5)>>

(***************************************************************************)
(* Properties of failures.                                                 *)
(***************************************************************************)
\* C11: when the fetch of a page fails, _fetch_all_pages ends with that error
\* and returns nothing: the caller gets no records of the pages fetched before,
\* nothing is printed, and no further page is fetched.
C11_PageFailureAbortsAggregation ==
    (/\ cmd.kind = "get_data"
     /\ cmd.fetch_all
     /\ Len(calls) > Len(pages)
     /\ pc # "agg_wait") =>
        /\ pc = "exit"
        /\ error.exc \in {"HTTPError", "SystemExit", "JSONDecodeError"}
        /\ ret = None
        /\ out = None
        /\ ar = Idle
        /\ Len(calls) = Len(pages) + 1
        /\ agg.page_count = Len(calls)

\* the second page failed with status 500 after a first page with records
C11_Witness ==
    /\ cmd.kind = "get_data"
    /\ cmd.fetch_all
    /\ pc = "exit"
    /\ error = HTTPError(500)
    /\ Len(pages) = 1
    /\ Len(calls) = 2
    /\ agg.all_records # <<>>
    /\ ret = None

\* no refresh token: none given, or the empty string
NoRefreshToken == ar.refresh_token = None \/ ar.refresh_token = S("")

\* C12: when the first response is 401 and the refresh token is empty or
\* absent, authenticated_request fails with MissingRefreshToken, the token
\* endpoint is not called and the request is not sent again.
C12_MissingRefreshTokenIsFatal ==
    (ar.pc # "idle" /\ NoRefreshToken) =>
        /\ ar.n_refresh = 0
        /\ Len(ar.sent) <= 1
        /\ (Len(ar.sent) = 1 /\ ar.response.status = 401) =>
              /\ ar.pc = "raised"
              /\ ar.error = SystemExit("MissingRefreshToken")

\* a 401 answered to a request made without refresh token
C12_Witness ==
    /\ NoRefreshToken
    /\ Len(ar.sent) = 1
    /\ ar.response.status = 401
    /\ ar.pc = "raised"
    /\ ar.n_refresh = 0

\* the token endpoint answered this activation, and not with a 2xx that
\* carries an access token
RefreshFailed ==
    /\ ar.n_refresh >= 1
    /\ \/ ar.refresh_response.status \notin 200..299
       \/ "access_token" \notin DOMAIN ar.refresh_response.body
       \/ ~Truthy(ar.refresh_response.body["access_token"])

\* C13: when the refresh triggered by a 401 fails (the token endpoint answers
\* non-2xx, or 2xx without an access token), authenticated_request fails with
\* RefreshFailed, the request is not sent again and the refresh is not tried
\* again.
C13_RefreshFailureIsFatal ==
    RefreshFailed =>
        /\ ar.pc = "raised"
        /\ ar.error = SystemExit("RefreshFailed")
        /\ Len(ar.sent) = 1
        /\ ar.n_refresh = 1

\* the token endpoint answered 400 and the executor gave up
C13_Witness ==
    /\ ar.n_refresh = 1
    /\ ar.refresh_response.status = 400
    /\ ar.pc = "raised"
    /\ ar.error = SystemExit("RefreshFailed")
    /\ Len(ar.sent) = 1

\* C14: after a successful refresh the refresh token authenticated_request
\* returns is the one the refresh response carries; it is the old one only when
\* the response has no refresh token.
C14_RefreshTokenReplaced ==
    (RefreshSucceeded /\ ar.pc = "returned") =>
        LET tokens == ar.refresh_response.body
        IN  /\ "refresh_token" \in DOMAIN tokens =>
                  ar.result[2] = tokens["refresh_token"]
            /\ "refresh_token" \notin DOMAIN tokens =>
                  ar.result[2] = ar.refresh_token
            /\ ar.result[2] = ar.refresh_token =>
                  "refresh_token" \notin DOMAIN tokens

\* a refresh that carried a new refresh token, returned in place of the old
C14_Witness ==
    /\ RefreshSucceeded
    /\ ar.pc = "returned"
    /\ "refresh_token" \in DOMAIN ar.refresh_response.body
    /\ IsStr(ar.result[2])
    /\ IsStr(ar.refresh_token)
    /\ ar.result[2] # ar.refresh_token

\* C15: a response whose status is neither 401 nor 2xx, to the first request
\* or to the retry, makes authenticated_request fail with an HTTP error of that
\* status; after the first request, without refresh and without retry.
C15_OtherStatusIsHttpError ==
    (Len(ar.sent) >= 1 /\ ar.response.status \notin {401} \cup 200..299) =>
        /\ ar.pc = "raised"
        /\ ar.error = HTTPError(ar.response.status)
        /\ Len(ar.sent) = 1 => ar.n_refresh = 0

\* a 500 answered to the first request
C15_Witness ==
    /\ Len(ar.sent) = 1
    /\ ar.response.status = 500
    /\ ar.pc = "raised"
    /\ ar.error = HTTPError(500)
    /\ ar.n_refresh = 0

(***************************************************************************)
(* Properties of the credential store.                                     *)
(***************************************************************************)
\* the caller's last call was this operation
Called(op) == store.kind = "seq" /\ store.op = op

InRange(band_id) == band_id \in 1..NUM_BANDS

\* C16: for a device id in 1..10 and a pair of token strings (a, r),
\* get_band_tokens(d) called after save_band_tokens(d, a, r) with no write of
\* the file in between returns exactly (a, r).
C16_GetAfterSave ==
    (/\ Called("get")
     /\ InRange(store.band_id)
     /\ store.seen.op = "save"
     /\ store.seen.band_id = store.band_id) =>
        /\ ~store.raised
        /\ store.result = <<store.seen.access_token, store.seen.refresh_token>>

\* band 10 read back after (x, y) was saved for it
C16_Witness ==
    /\ Called("get")
    /\ store.band_id = 10
    /\ store.seen.op = "save"
    /\ store.seen.band_id = 10
    /\ store.result = <<S("x"), S("y")>>

\* C17: for a device id outside 1..10, get_band_tokens and save_band_tokens
\* fail with the invalid-device error and leave the credential file as it was:
\* nothing is read, created or written.
C17_InvalidDevice ==
    (store.kind = "seq" /\ store.op \in {"get", "save"} /\ ~InRange(store.band_id)) =>
        /\ store.raised
        /\ store.error = ValueError
        /\ secrets_file = store.before
        /\ store.last_write = store.seen

\* band 0 written when there is no file: the call fails and there is still none
C17_Witness ==
    /\ Called("save")
    /\ store.band_id = 0
    /\ store.raised
    /\ store.before = Absent
    /\ secrets_file = Absent

\* the file has no tokens for the band: no file, no record, or a record whose
\* tokens are missing, null or empty
Unset(file, band_id) ==
    \/ ~file.exists
    \/ ToString(band_id) \notin DOMAIN file.doc
    \/ \A t \in {"access_token", "refresh_token"} :
          \/ t \notin DOMAIN file.doc[ToString(band_id)]
          \/ file.doc[ToString(band_id)][t] \in {None, S("")}

\* C18: after any sequence of store operations, get_band_tokens of a device id
\* in 1..10 whose record is absent or unset returns the pair of empty strings
\* and not an error, and after the call the document has a record for the
\* device.
C18_ReadOfUnsetDevice ==
    (Called("get") /\ InRange(store.band_id)) =>
        /\ ~store.raised
        /\ secrets_file.exists
        /\ ToString(store.band_id) \in DOMAIN secrets_file.doc
        /\ Unset(store.before, store.band_id) => store.result = <<S(""), S("")>>

\* band 1 read from a document that had no record for it
C18_Witness ==
    /\ Called("get")
    /\ store.band_id = 1
    /\ store.before.exists
    /\ "1" \notin DOMAIN store.before.doc
    /\ store.result = <<S(""), S("")>>
    /\ secrets_file.doc["1"] = EmptyBand

\* the document a call found: the one of the file, or the one written when
\* there was no file
Found == IF store.before.exists THEN store.before.doc ELSE InitialDoc

\* C19: save_band_tokens(d, a, r) changes the access_token and refresh_token
\* of device d and nothing else: the records of the other devices and
\* client_id/client_secret are as they were; and no operation removes a
\* device record from the document.
C19_SaveChangesOneRecord ==
    /\ (Called("save") /\ ~store.raised) =>
          LET band_key == ToString(store.band_id)
              new == secrets_file.doc
          IN  /\ DOMAIN new = DOMAIN Found \cup {band_key}
              /\ \A k \in DOMAIN Found \ {band_key} : new[k] = Found[k]
              /\ new[band_key]["access_token"] = store.access_token
              /\ new[band_key]["refresh_token"] = store.refresh_token
              /\ DOMAIN new[band_key] \ {"access_token", "refresh_token"} =
                    IF band_key \in DOMAIN Found
                    THEN DOMAIN Found[band_key] \ {"access_token", "refresh_token"}
                    ELSE {}
    /\ (store.kind = "seq" /\ store.op \in {"get", "save"} /\ store.before.exists) =>
          /\ secrets_file.exists
          /\ DOMAIN store.before.doc \subseteq DOMAIN secrets_file.doc

\* (x, y) saved for band 1 in a document that holds tokens for band 10
C19_Witness ==
    /\ Called("save")
    /\ store.band_id = 1
    /\ store.before.exists
    /\ "1" \in DOMAIN store.before.doc
    /\ store.before.doc["10"] = FullBand(10)
    /\ store.before.doc["1"] = EmptyBand
    /\ secrets_file.doc["1"] = [access_token |-> S("x"), refresh_token |-> S("y")]
    /\ secrets_file.doc["10"] = FullBand(10)
    /\ secrets_file.doc["client_id"] = S("cid")

\* both invocations have written, first then second
BothSaved(first, second) ==
    /\ store.kind = "race"
    /\ store.writes = <<first, second>>
    /\ store.procs[first].band_id # store.procs[second].band_id

\* the tokens the document holds for the band of invocation p are those p saved
Holds(p) ==
    LET me == store.procs[p]
        band_key == ToString(me.band_id)
    IN  /\ band_key \in DOMAIN secrets_file.doc
        /\ secrets_file.doc[band_key]["access_token"] = me.access_token
        /\ secrets_file.doc[band_key]["refresh_token"] = me.refresh_token

\* C20: two invocations that interleave their load-mutate-save on the same
\* file are not synchronized.  When both save_band_tokens calls, for two
\* different devices, have completed, the document holds the later writer's
\* tokens; it holds the earlier writer's tokens too when the later writer read
\* the document after the earlier one wrote it; and when the later writer read
\* it before, everything but the later writer's record is as the later writer
\* read it: the earlier writer's update is lost.
C20_LastWriterWins ==
    \A first \in Procs : \A second \in Procs :
        BothSaved(first, second) =>
            LET late == store.procs[second]
                doc == secrets_file.doc
            IN  /\ Holds(second)
                /\ late.loaded_at = 1 => Holds(first)
                /\ late.loaded_at = 0 =>
                      /\ DOMAIN doc = DOMAIN late.secrets \cup {ToString(late.band_id)}
                      /\ \A k \in DOMAIN doc \ {ToString(late.band_id)} :
                            doc[k] = late.secrets[k]

\* invocation 1 saved (x, y) for band 1, invocation 2 saved (y, x) for band
\* 10 from a document read before, and band 1 has its empty record again
C20_Witness ==
    /\ BothSaved(1, 2)
    /\ store.procs[1].band_id = 1
    /\ store.procs[1].access_token = S("x")
    /\ store.procs[2].band_id = 10
    /\ store.procs[2].loaded_at = 0
    /\ Holds(2)
    /\ ~Holds(1)
    /\ "1" \in DOMAIN secrets_file.doc
    /\ secrets_file.doc["1"] = EmptyBand

(***************************************************************************)
(* Properties of the compliance scan (run_daily_compliance_check).         *)
(***************************************************************************)
InScan == cmd.kind = "compliance" /\ pc \in {"scan_band", "scan_ep", "scan_wait", "done"}

AllThree == L(<<S("sleep"), S("cycle"), S("recovery")>>)

\* the stored record of a band lacks the named token
TokenAbsent(file, band_id, token) ==
    \/ ~file.exists
    \/ ToString(band_id) \notin DOMAIN file.doc
    \/ token \notin DOMAIN file.doc[ToString(band_id)]
    \/ file.doc[ToString(band_id)][token] \in {None, S("")}

\* the scan is about to look at a band one of whose tokens is absent
AtAbsentBand ==
    /\ cmd.kind = "compliance"
    /\ pc = "scan_band"
    /\ scan.band_id <= NUM_BANDS
    /\ \/ TokenAbsent(secrets_file, scan.band_id, "access_token")
       \/ TokenAbsent(secrets_file, scan.band_id, "refresh_token")

\* the step the scan takes at such a band: the band is marked failed on the
\* three endpoints, no request is prepared, and the scan is at the next band
SkippedStep ==
    /\ ToString(scan.band_id) \in DOMAIN scan'.failures
    /\ scan'.failures[ToString(scan.band_id)] = AllThree
    /\ scan'.band_id = scan.band_id + 1
    /\ pc' = "scan_band"
    /\ ar = Idle /\ ar' = Idle

\* a band that was looked at and whose access token is absent is marked
\* failed on the three endpoints
SkippedMarked ==
    InScan =>
        \A b \in 1..NUM_BANDS :
            (b < scan.band_id /\ TokenAbsent(secrets_file, b, "access_token"))
                => /\ ToString(b) \in DOMAIN scan.failures
                   /\ scan.failures[ToString(b)] = AllThree

\* the report of a scan in which no band has an access token
AllAbsentReport ==
    (/\ cmd.kind = "compliance" /\ pc = "done"
     /\ \A b \in 1..NUM_BANDS : TokenAbsent(secrets_file, b, "access_token"))
        => out = D([k \in BandKeys |-> AllThree])

\* C21: the scan marks a band with an absent access or refresh token as
\* failed on exactly sleep, cycle and recovery, in one step that sends no
\* request; when all ten bands are unauthenticated the report maps all ten
\* band ids to these three names.
C21_UnauthenticatedBandsFailWithoutRequest ==
    /\ [](SkippedMarked /\ AllAbsentReport)
    /\ [][AtAbsentBand => SkippedStep]_vars

C21_Witness ==
    /\ cmd.kind = "compliance" /\ pc = "done"
    /\ \A b \in 1..NUM_BANDS : TokenAbsent(secrets_file, b, "access_token")
    /\ out = D([k \in BandKeys |-> AllThree])

\* the fetch of the current endpoint ended with a fatal error
EndpointFailed ==
    /\ cmd.kind = "compliance"
    /\ pc = "scan_wait"
    /\ ar.pc = "raised"
    /\ ar.error \in {SystemExit("RefreshFailed"), SystemExit("MissingRefreshToken")}
                    \cup {HTTPError(st) : st \in Statuses}

\* the step after such an error: the endpoint, and only it, joins the failed
\* list of the band, the report is as it was, and the scan is at the next
\* endpoint of the same band
DowngradedStep ==
    /\ scan'.band_failures = Append(scan.band_failures, S(endpoints[scan.ep]))
    /\ scan'.failures = scan.failures
    /\ scan'.band_id = scan.band_id
    /\ scan'.ep = scan.ep + 1
    /\ pc' = "scan_ep"
    /\ error' = NoError

\* the scan goes through the endpoints and the bands one by one: an endpoint
\* is left only after a request for it was sent, a band only when it is
\* unauthenticated or after its last endpoint
OneByOne ==
    /\ (pc = "scan_ep" /\ scan.ep <= Len(endpoints)) =>
           /\ pc' = "scan_wait"
           /\ ar'.pc = "send" /\ ar'.url = endpoints[scan.ep]
           /\ scan' = scan
    /\ (pc = "scan_wait" /\ scan'.ep # scan.ep) =>
           /\ Len(ar.sent) >= 1
           /\ scan'.ep = scan.ep + 1
    /\ (pc = "scan_wait") => scan'.band_id = scan.band_id
    /\ (pc \in {"scan_ep", "scan_band"} /\ scan'.band_id # scan.band_id) =>
           /\ scan'.band_id = scan.band_id + 1
           /\ pc' = "scan_band"
           /\ pc = "scan_ep" => scan.ep = Len(endpoints) + 1

\* once the loop over the bands has begun the command never ends with an
\* error, and it ends after the last band with a report
EndsWithReport ==
    (cmd.kind = "compliance" /\ scan.band_id >= 1) =>
        /\ error = NoError
        /\ pc \in {"scan_band", "scan_ep", "scan_wait", "done"}
        /\ scan.band_id \in 1..(NUM_BANDS + 1)
        /\ pc \in {"scan_ep", "scan_wait"} => scan.band_id <= NUM_BANDS
        /\ pc = "scan_ep" => scan.ep \in 1..(Len(endpoints) + 1)
        /\ pc = "scan_wait" => scan.ep \in 1..Len(endpoints) /\ ar.pc # "idle"
        /\ pc = "done" =>
              /\ scan.band_id = NUM_BANDS + 1
              /\ out \in {S("DAILY COMPLIANCE SUCCESSFUL FOR ALL BANDS"),
                           D(scan.failures)}

\* C22: in the compliance scan a fatal error of one endpoint of one band
\* (refresh failure, missing refresh token, HTTP error) marks that endpoint,
\* and only it, as failed; the scan goes on with every remaining endpoint of
\* the band and every remaining band, and ends with a report, never with the
\* error.
C22_ScanDowngradesErrors ==
    /\ []EndsWithReport
    /\ [][EndpointFailed => DowngradedStep]_vars
    /\ [][cmd.kind = "compliance" => OneByOne]_vars

\* the last endpoint of band 10 fails with an HTTP error in a scan that went
\* on after the failure of its first endpoint and after the failures of band 9
C22_Witness ==
    /\ EndpointFailed
    /\ ar.error = HTTPError(500)
    /\ scan.band_id = NUM_BANDS
    /\ scan.ep = Len(endpoints)
    /\ scan.band_failures = <<S("sleep")>>
    /\ "9" \in DOMAIN scan.failures
    /\ error = NoError

\* the entries of the page that answered the fetch of the current endpoint:
\* those of its records list, or its own when the page is a list
PageEntries ==
    LET data == ar.response.body
    IN  IF IsList(data) THEN data.l
        ELSE IF IsDict(data) /\ "records" \in DOMAIN data.d
                /\ IsList(data.d["records"])
        THEN data.d["records"].l
        ELSE <<>>

\* the fetch of the current endpoint failed
FetchFailed == ar.pc = "raised" \/ ar.response.body = NotJson

\* no record of the page remains after filter_ongoing_records_before_date
NoneRemains ==
    filter_ongoing_records_before_date(PageEntries, scan.start_date) = <<>>

Names(list) == {list[i] : i \in 1..Len(list)}

\* the requests of one fetch of the scan: the page of 25 over the day, asked
\* for once or, after a refresh, twice, never with a cursor
OnePageRequests ==
    /\ Len(ar.sent) \in {1, 2}
    /\ \A i \in 1..Len(ar.sent) :
          /\ ar.sent[i].url = endpoints[scan.ep]
          /\ ar.sent[i].params = [limit |-> N(25), start |-> scan.start_date,
                                   end |-> scan.end_date]

\* the step that ends the fetch of an endpoint
EndpointStep ==
    (cmd.kind = "compliance" /\ pc = "scan_wait" /\ pc' # "scan_wait") =>
        /\ OnePageRequests
        /\ scan'.ep = scan.ep + 1
        /\ Names(scan'.band_failures) \ Names(scan.band_failures)
              \subseteq {S(endpoints[scan.ep])}
        /\ Names(scan.band_failures) \subseteq Names(scan'.band_failures)
        /\ S(endpoints[scan.ep]) \in Names(scan'.band_failures)
              <=> (FetchFailed \/ NoneRemains)

\* the step that ends an authenticated band
BandStep ==
    (cmd.kind = "compliance" /\ pc = "scan_ep" /\ pc' = "scan_band") =>
        /\ ToString(scan.band_id) \in DOMAIN scan'.failures
              <=> scan.band_failures # <<>>
        /\ scan.band_failures # <<>> =>
              scan'.failures[ToString(scan.band_id)] = L(scan.band_failures)
        /\ \A k \in DOMAIN scan.failures :
              k \in DOMAIN scan'.failures /\ scan'.failures[k] = scan.failures[k]
        /\ DOMAIN scan'.failures \subseteq
              DOMAIN scan.failures \cup {ToString(scan.band_id)}

\* the report is the mapping of the failed lists; it is the success line
\* exactly when the mapping is empty
ReportIsMapping ==
    (cmd.kind = "compliance" /\ pc = "done") =>
        /\ scan.failures = <<>> <=>
              out = S("DAILY COMPLIANCE SUCCESSFUL FOR ALL BANDS")
        /\ scan.failures # <<>> => out = D(scan.failures)
        /\ \A k \in DOMAIN scan.failures : scan.failures[k].l # <<>>

\* C23: for an authenticated band the scan asks for one page per endpoint
\* and never follows a cursor; the endpoint joins the failed list of the band
\* if and only if the fetch failed or no record remains after
\* filter_ongoing_records_before_date; the band is in the resulting mapping
\* if and only if its failed list is non-empty, so that the mapping is empty
\* only when every band had a record on each of the three endpoints.
C23_OnePageAndFailedIff ==
    /\ []ReportIsMapping
    /\ [][EndpointStep /\ BandStep]_vars

\* band 10 fetched its three pages, and only the second endpoint had no
\* record left: a page came back for it whose only record is ongoing and
\* started before the day
C23_Witness ==
    /\ cmd.kind = "compliance" /\ pc = "scan_wait"
    /\ scan.band_id = NUM_BANDS
    /\ scan.ep = Len(endpoints)
    /\ scan.band_failures = <<S("cycle")>>
    /\ ar.pc = "returned"
    /\ PageEntries = <<Rec2, Rec1>>
    /\ ~NoneRemains

(***************************************************************************)
(* Properties of the date and filter functions.                            *)
(***************************************************************************)
\* the entry is a mapping whose start field is a string less than the bound
StartsBefore(e, bound) ==
    /\ IsDict(e)
    /\ "start" \in DOMAIN e.d
    /\ IsStr(e.d["start"])
    /\ StrLess(e.d["start"].s, bound.s)

FilterByStartReturned ==
    cmd.kind = "filter_records_by_start_date" /\ cmd.start # None /\ pc # "start"

\* C24: with a start bound filter_records_by_start_date returns, in their
\* order, the entries that are no mappings and the mappings that are not
\* dropped; a mapping is dropped exactly when its start field is
\* lexicographically less than the bound.
C24_FilterByStartDropsEarlierOnly ==
    FilterByStartReturned =>
        /\ pc = "done"
        /\ ret = L(SelectSeq(cmd.records.l,
                             LAMBDA e : ~StartsBefore(e, cmd.start)))

\* the record that started before the bound is dropped, the later one kept
C24_Witness ==
    /\ FilterByStartReturned
    /\ cmd.records = L(<<Entry(S("2024-01-14T22:00:00.000Z"), None),
                          Entry(S("2024-01-15T08:00:00.000Z"), None)>>)
    /\ ret = L(<<Entry(S("2024-01-15T08:00:00.000Z"), None)>>)

\* the end of the entry is null: the field holds null, or there is none
EndIsNull(e) == "end" \notin DOMAIN e.d \/ e.d["end"] = None

\* the entry is a mapping whose start field is a non-empty string less than
\* the bound
StartedBefore(e, bound) ==
    /\ StartsBefore(e, bound)
    /\ e.d["start"] # S("")

FilterOngoingReturned ==
    cmd.kind = "filter_ongoing_records_before_date" /\ pc # "start"

\* C25: filter_ongoing_records_before_date drops a record if and only if its
\* start is lexicographically less than the bound and its end is null; every
\* other entry is kept, in the original order.
C25_DropsOpenBefore ==
    FilterOngoingReturned =>
        /\ pc = "done"
        /\ ret = L(SelectSeq(cmd.records,
                             LAMBDA e : ~(StartsBefore(e, cmd.start) /\ EndIsNull(e))))

\* C25 as amended: filter_ongoing_records_before_date drops a record if and
\* only if its start is a non-empty string lexicographically less than the
\* bound and its end is null; every other entry (ended records, records that
\* start at or after the bound, records whose start is missing, null or the
\* empty string, entries that are no mappings) is kept, in the original order.
C25_DropsOpenStartedBefore ==
    FilterOngoingReturned =>
        /\ pc = "done"
        /\ ret = L(SelectSeq(cmd.records,
                             LAMBDA e : ~(StartedBefore(e, cmd.start) /\ EndIsNull(e))))

\* an ongoing record that started before the bound is dropped, and an ended
\* record with the same start is kept
C25_Witness ==
    /\ FilterOngoingReturned
    /\ cmd.records = <<Entry(S("2024-01-14T22:00:00.000Z"), None),
                        Entry(S("2024-01-14T22:00:00.000Z"),
                              S("2024-01-15T09:00:00.000Z"))>>
    /\ ret = L(<<Entry(S("2024-01-14T22:00:00.000Z"),
                       S("2024-01-15T09:00:00.000Z"))>>)

\* a date written as YYYY-MM-DD: four digits, two digits, two digits, and
\* the day exists in the calendar
IsDate(s) ==
    /\ Len(s) = 10
    /\ Char(s, 5) = "-" /\ Char(s, 8) = "-"
    /\ AllDigits(SubSeq(s, 1, 4)) /\ AllDigits(SubSeq(s, 6, 7))
    /\ AllDigits(SubSeq(s, 9, 10))
    /\ ToInt(SubSeq(s, 1, 4)) >= 1
    /\ ToInt(SubSeq(s, 6, 7)) \in 1..12
    /\ ToInt(SubSeq(s, 9, 10)) \in
          1..DaysIn(ToInt(SubSeq(s, 1, 4)), ToInt(SubSeq(s, 6, 7)))

\* three fields of digits between dashes that name a day of the calendar
\* (a day of one digit may follow a space)
NamesADay(s) ==
    \E i \in 1..Len(s) : \E j \in (i + 1)..Len(s) :
        /\ Char(s, i) = "-" /\ Char(s, j) = "-"
        /\ LET y == SubSeq(s, 1, i - 1)
               m == SubSeq(s, i + 1, j - 1)
               d0 == SubSeq(s, j + 1, Len(s))
               d == IF Len(d0) = 2 /\ Char(d0, 1) = " " THEN SubSeq(d0, 2, 2) ELSE d0
           IN  /\ Len(y) = 4 /\ Len(m) \in 1..2 /\ Len(d) \in 1..2
               /\ AllDigits(y) /\ AllDigits(m) /\ AllDigits(d)
               /\ ToInt(y) >= 1
               /\ ToInt(m) \in 1..12
               /\ ToInt(d) \in 1..DaysIn(ToInt(y), ToInt(m))

FormatDateCalled == cmd.kind = "format_date_for_api" /\ pc # "start"

Suffix == IF cmd.is_end THEN "T23:59:59.999Z" ELSE "T00:00:00.000Z"

ClientKeyAbsent(file, key) ==
    \/ ~file.exists
    \/ key \notin DOMAIN file.doc
    \/ file.doc[key] \in {None, S("")}

\* the token the file holds for the band, null when it holds none
Stored(file, band_id, token) ==
    IF TokenAbsent(file, band_id, token) THEN None
    ELSE file.doc[ToString(band_id)][token]

\* a data command is about to start for a band one of whose credentials is
\* absent
StartsWithoutCredentials ==
    /\ cmd.kind = "get_data"
    /\ pc = "start"
    /\ \/ ClientKeyAbsent(secrets_file, "client_id")
       \/ ClientKeyAbsent(secrets_file, "client_secret")
       \/ TokenAbsent(secrets_file, cmd.band_id, "access_token")
       \/ TokenAbsent(secrets_file, cmd.band_id, "refresh_token")

\* the command ends at once with MissingCredentials: no request prepared,
\* nothing fetched or printed, the tokens of every band as they were
FailsAtOnce ==
    /\ pc' = "exit"
    /\ error' = MissingCredentials
    /\ ar = Idle /\ ar' = Idle
    /\ issued' = issued
    /\ calls' = <<>> /\ pages' = <<>>
    /\ out' = None
    /\ \A b \in 1..NUM_BANDS : \A token \in {"access_token", "refresh_token"} :
          Stored(secrets_file', b, token) = Stored(secrets_file, b, token)

\* C27: a data command for a band whose client id, client secret, access
\* token or refresh token is absent ends with MissingCredentials before a
\* request is sent, and the stored tokens are as they were.
C27_MissingCredentialsBeforeRequest ==
    /\ [][StartsWithoutCredentials => FailsAtOnce]_vars
    /\ []((cmd.kind = "get_data" /\ error = MissingCredentials) =>
            (pc = "exit" /\ ar = Idle /\ out = None))

\* the command for band 9 ended so: the file holds an access token for the
\* band and no refresh token
C27_Witness ==
    /\ cmd.kind = "get_data"
    /\ cmd.band_id = 9
    /\ pc = "exit"
    /\ error = MissingCredentials
    /\ ~TokenAbsent(secrets_file, 9, "access_token")
    /\ TokenAbsent(secrets_file, 9, "refresh_token")
    /\ ar = Idle

\* the cursor of a page as a request carries it: a string as it is, another
\* value written as a string
AsCursor(c) == IF IsStr(c) THEN c ELSE S(Str(c))

\* the parameters every page of the command is requested with
RangeParams ==
    [k \in {"limit"} \cup (IF cmd.start = None THEN {} ELSE {"start"})
                      \cup (IF cmd.end = None THEN {} ELSE {"end"}) |->
        IF k = "limit" THEN N(cmd.limit)
        ELSE IF k = "start" THEN cmd.start ELSE cmd.end]

\* C28: _fetch_all_pages requests the first page without cursor and every
\* later page with the next_token taken from the page before it, written as
\* a string when it is another truthy value, and with the limit and the date
\* range of the first page.
C28_CursorThreaded ==
    (cmd.kind = "get_data" /\ cmd.fetch_all) =>
        \A k \in 1..Len(calls) :
            /\ \A key \in DOMAIN RangeParams :
                  /\ key \in DOMAIN calls[k].params
                  /\ calls[k].params[key] = RangeParams[key]
            /\ DOMAIN calls[k].params \subseteq DOMAIN RangeParams \cup {"nextToken"}
            /\ k = 1 => "nextToken" \notin DOMAIN calls[k].params
            /\ k > 1 =>
                  /\ k - 1 <= Len(pages)
                  /\ "nextToken" \in DOMAIN calls[k].params
                  /\ calls[k].params["nextToken"] =
                        AsCursor(RawCursor(pages[k - 1].data))

\* the second page was requested with the cursor 7 of the first, as "7"
C28_Witness ==
    /\ cmd.kind = "get_data" /\ cmd.fetch_all
    /\ Len(calls) >= 2
    /\ Len(pages) >= 1
    /\ RawCursor(pages[1].data) = N(7)
    /\ "nextToken" \in DOMAIN calls[2].params
    /\ calls[2].params["nextToken"] = S("7")

\* the first request of the execution was answered with a 2xx status
FirstResponse2xx ==
    /\ Len(ar.sent) = 1
    /\ ar.n_refresh = 0
    /\ ar.response.status \in 200..299

\* the execution returned the pair it was called with
ReturnsInputPair ==
    FirstResponse2xx =>
        /\ ar.pc = "returned"
        /\ ar.result = <<ar.access_token, ar.refresh_token>>

\* the data command has loaded its credentials, and the token endpoint has
\* not been called in it
NoRefreshSoFar ==
    /\ cmd.kind = "get_data"
    /\ pc # "start"
    /\ ar.n_refresh = 0
    /\ refreshed = NoRefresh

\* C29: when the first response is 2xx, authenticated_request returns the
\* token pair it was given; a data command in which no refresh has occurred
\* leaves the credential file as it is (run_get_data saves the tokens only
\* when the returned pair differs from the loaded pair).
C29_NoRefreshNoWrite ==
    /\ []ReturnsInputPair
    /\ [][NoRefreshSoFar => secrets_file' = secrets_file]_vars
    /\ []((NoRefreshSoFar /\ pc = "done") =>
            (ret.access_token = rg.access_token /\ ret.refresh_token = rg.refresh_token))

\* an --all command that ended after two pages without any refresh
C29_Witness ==
    /\ NoRefreshSoFar
    /\ cmd.fetch_all
    /\ pc = "done"
    /\ Len(pages) = 2
    /\ issued = 0
    /\ ret.access_token = rg.access_token
    /\ ret.refresh_token = rg.refresh_token

(***************************************************************************)
(* Properties of the authorization flow (run_oauth_flow).                  *)
(***************************************************************************)
\* the query of the captured request carries a value under the key
Carries(key) ==
    \E i \in 1..Len(oauth.request.query) :
        /\ oauth.request.query[i][1] = key
        /\ oauth.request.query[i][2] # ""

\* the first value the query carries under the key
Carried(key) ==
    LET q == oauth.request.query
        first == CHOOSE i \in 1..Len(q) :
                    /\ q[i][1] = key /\ q[i][2] # ""
                    /\ \A j \in 1..(i - 1) : ~(q[j][1] = key /\ q[j][2] # "")
    IN  S(q[first][2])

\* the captured callback has no error, the state of this flow, and a code
CallbackGood ==
    /\ oauth.request.path = "/callback"
    /\ ~Carries("error")
    /\ Carries("state")
    /\ Carried("state") = oauth.state
    /\ Carries("code")

\* the exchange of the code returned an access token and a refresh token,
\* both strings
ExchangeGood ==
    /\ oauth.exchanged
    /\ oauth.response.body # NotJson
    /\ "access_token" \in DOMAIN oauth.response.body
    /\ "refresh_token" \in DOMAIN oauth.response.body
    /\ IsStr(oauth.response.body["access_token"])
    /\ IsStr(oauth.response.body["refresh_token"])

\* the file holds the exchanged pair for the band of the flow
ExchangedPairStored ==
    /\ secrets_file.exists
    /\ ToString(cmd.band_id) \in DOMAIN secrets_file.doc
    /\ secrets_file.doc[ToString(cmd.band_id)] =
          [access_token |-> oauth.response.body["access_token"],
           refresh_token |-> oauth.response.body["refresh_token"]]

\* the flow has ended
FlowEnded == cmd.kind = "oauth" /\ pc \in {"done", "exit"}

\* a flow ends well exactly when callback and exchange were good, and then
\* the pair is stored; otherwise it ends with an error
EndsWellIffGood ==
    FlowEnded =>
        /\ (pc = "done") => (CallbackGood /\ ExchangeGood /\ ExchangedPairStored)
        /\ ~(CallbackGood /\ ExchangeGood) => (pc = "exit" /\ error # NoError)

\* the file is written only by the step that ends the flow well; the step
\* that reads the client credentials may create the file, and leaves every
\* token as it is
WritesOnlyWhenGood ==
    cmd.kind = "oauth" =>
        /\ (pc # "start" /\ secrets_file' # secrets_file) =>
              (CallbackGood /\ pc' = "done" /\ ExchangeGood' /\ ExchangedPairStored')
        /\ (pc # "start" /\ pc' = "exit") => secrets_file' = secrets_file
        /\ (pc = "start") =>
              \A b \in 1..NUM_BANDS : \A token \in {"access_token", "refresh_token"} :
                  Stored(secrets_file', b, token) = Stored(secrets_file, b, token)

\* C30: run_oauth_flow writes the tokens of the band only if the captured
\* callback carried no error, its state is the state generated for this
\* flow, it carried a code, and the exchange of the code returned an access
\* token and a refresh token that are strings; in every other case the flow
\* ends with an error and the file is as it was.
C30_TokensWrittenOnlyAfterGoodFlow ==
    /\ []EndsWellIffGood
    /\ [][WritesOnlyWhenGood]_vars

\* the flow for band 1 stored the pair it exchanged the code for
C30_Witness ==
    /\ cmd.kind = "oauth" /\ cmd.band_id = 1
    /\ pc = "done"
    /\ CallbackGood
    /\ ExchangeGood
    /\ secrets_file.exists
    /\ "1" \in DOMAIN secrets_file.doc
    /\ secrets_file.doc["1"] = [access_token |-> S("A"), refresh_token |-> S("R")]

====
